---- MODULE Spec2Model ----
(***************************************************************************)
(* A model of the public transaction engine of paladin (package            *)
(* publictxmgr): the engine loop and its poll of the orchestrator pool,    *)
(* the wake-up channel, the completed-nonce cache and the lookup of the    *)
(* pending fueling transaction.                                            *)
(***************************************************************************)
EXTENDS Integers, Sequences, FiniteSets, TLC

VARIABLES
    now,                          \* the wall clock, time.Now()
    txStore,                      \* the persisted public transactions, in sequence order
    ctxDone,                      \* ble.ctx has been cancelled
    maxInFlightOrchestrators,     \* ble.maxInFlightOrchestrators, set at construction
    InFlightOrchestrators,        \* ble.InFlightOrchestrators: signing address -> orchestrator
    SigningAddressesPausedUntil,  \* ble.SigningAddressesPausedUntil: signing address -> instant
    liveOrchestrators,            \* history: started and not yet stopped orchestrators per signer
    lastPoll,                     \* history: what the poll that has just returned did
    InFlightOrchestratorStale,    \* ble.InFlightOrchestratorStale: the signals buffered in it
    tickerC,                      \* ticker.C of engineLoop: the ticks buffered in it
    enginePC,                     \* where engineLoop is: "select", "poll" or "exited"
    wokenBy,                      \* the case of the select that woke engineLoop last
    engineLoopDone,               \* ble.engineLoopDone has been closed
    staleWindow,                  \* history: the calls and polls since the last ticker tick
    lastMark,                     \* history: the MarkInFlightOrchestratorsStale that just returned
    pollOwed,                     \* history: a call has returned and no poll has started since
    completedTxNoncePerAddress,      \* ble.completedTxNoncePerAddress: signing address -> nonce
    completedTxNoncePerAddressMutex, \* the caller that holds the mutex, or NoCaller
    callers,                      \* the calls in progress: caller -> position and locals
    fatalError,                   \* the runtime has ended the process (concurrent map access)
    lastCheck,                    \* history: the CheckTransactionCompleted that just returned
    lastUpdate,                   \* history: the updateCompletedTxNonce that just returned
    lastFueling,                  \* history: the fueling request that just returned
    nextNonce,                    \* the orchestrators' nonce counters: signing address -> nonce
    broadcastHash,                \* transaction id -> number of its current broadcast hash
    chain,                        \* the base ledger: the blocks, each a set of receipts
    inFlightQueue,                \* the ids in the orchestrators' in-flight queues
    succeededOrder,               \* history: signing address -> nonces in the order they
                                  \* reached Succeeded (of the transactions now Succeeded)
    lastLedgerEvent,              \* history: the status update or reorg that just ended
    receiptSubs,                  \* es.receiptSubs: the ids of the subscriptions in the map
    subscriptions,                \* subscription id -> the receiptListenerSubscription made
                                  \* for it, its receipt receiver and its delivery call
    subLock,                      \* es.subLock: free, or held by the cleanup in progress
    lastDelivery,                 \* history: the DeliverReceiptBatch that just returned
    dbTXs,                        \* the DB transactions: their state, the message rows they
                                  \* inserted and their post-commit hooks
    persistedMessages,            \* the committed rows of the message table (local_seq)
    nextLocalSeq,                 \* the next local_seq the message table gives out
    notifiedMessages,             \* the rows notifyNewMessages has been called with
    lastSendMessage,              \* history: the SendMessage that just returned
    lastStageCall                 \* history: the call of the stage controller that just ended

engineVars == <<now, txStore, ctxDone, maxInFlightOrchestrators, InFlightOrchestrators, SigningAddressesPausedUntil,
                liveOrchestrators, lastPoll>>

wakeVars == <<InFlightOrchestratorStale, tickerC, enginePC, wokenBy, engineLoopDone,
              staleWindow, lastMark, pollOwed>>

cacheVars == <<completedTxNoncePerAddress, completedTxNoncePerAddressMutex, callers,
               fatalError, lastCheck, lastUpdate>>

fuelVars == <<lastFueling>>

ledgerVars == <<nextNonce, broadcastHash, chain, inFlightQueue, succeededOrder,
                lastLedgerEvent>>

subVars == <<receiptSubs, subscriptions, subLock, lastDelivery>>

msgVars == <<dbTXs, persistedMessages, nextLocalSeq, notifiedMessages, lastSendMessage>>

stageVars == <<lastStageCall>>

vars == <<engineVars, wakeVars, cacheVars, fuelVars, ledgerVars, subVars, msgVars, stageVars>>

----------------------------------------------------------------------------
(* Bounds of the model *)

MaxTime == 2
\* the clock's last reading where two orchestrators of different age both grow
\* older than maxOverloadProcessTime
MaxLongTime == 3
MaxTxs == 3
MaxStaleCalls == 3
MaxBlocks == 3
MaxBroadcasts == 2
MaxBatches == 2
MaxMessages == 3
MaxEvents == 3

(* Signing addresses *)
Signers == {"A", "B", "C"}
NoAddress == "none"

(* Engine configuration: the pool sizes tried, and the durations in clock units *)
PoolSizes == {1, 2}
maxOrchestratorStale == 1
maxOrchestratorIdle == 0
maxOverloadProcessTime == 1

----------------------------------------------------------------------------
(* Transaction statuses and orchestrator states *)

PubTxStatusPending == "Pending"
PubTxStatusSubmitted == "Submitted"
PubTxStatusSucceeded == "Succeeded"
PubTxStatusFailed == "Failed"
PubTxStatusSuspended == "Suspended"

OrchestratorStateStale == "Stale"
OrchestratorStateIdle == "Idle"
OrchestratorStateRunning == "Running"
OrchestratorStatePaused == "Paused"
OrchestratorStateStopped == "Stopped"

AllOrchestratorStates ==
    {OrchestratorStateStale, OrchestratorStateIdle, OrchestratorStateRunning,
     OrchestratorStatePaused, OrchestratorStateStopped}

----------------------------------------------------------------------------
(* Go maps as functions with a finite domain *)

EmptyMap == [a \in {} |-> 0]

MapPut(m, k, v) == [a \in DOMAIN m \cup {k} |-> IF a = k THEN v ELSE m[a]]

MapRestrict(m, keys) == [a \in keys |-> m[a]]

----------------------------------------------------------------------------
(* The transaction store: components.PubTransactionQueries and ListTransactions *)

PubTransactionQueries(inStatus, from, to, notFrom, sort, limit, hasTxValue) ==
    [InStatus |-> inStatus, From |-> from, To |-> to, NotFrom |-> notFrom,
     Sort |-> sort, Limit |-> limit, HasTxValue |-> hasTxValue]

MatchesQuery(tx, tf) ==
    /\ tx.status \in tf.InStatus
    /\ tf.From # NoAddress => tx.from = tf.From
    /\ tf.To # NoAddress => tx.to = tf.To
    /\ tx.from \notin tf.NotFrom
    /\ tf.HasTxValue => tx.hasValue

\* the position of the first transaction with the highest nonce
HighestNonceIndex(txs) ==
    CHOOSE i \in 1..Len(txs) :
        /\ \A j \in 1..Len(txs) : txs[j].nonce <= txs[i].nonce
        /\ \A j \in 1..(i - 1) : txs[j].nonce < txs[i].nonce

RemoveAt(s, i) == SubSeq(s, 1, i - 1) \o SubSeq(s, i + 1, Len(s))

RECURSIVE SortByNonceDescending(_)
SortByNonceDescending(txs) ==
    IF txs = <<>> THEN <<>>
    ELSE LET i == HighestNonceIndex(txs)
         IN <<txs[i]>> \o SortByNonceDescending(RemoveAt(txs, i))

ListTransactions(store, tf) ==
    LET matching == SelectSeq(store, LAMBDA tx : MatchesQuery(tx, tf))
        sorted == IF tf.Sort = "-nonce" THEN SortByNonceDescending(matching) ELSE matching
    IN IF Len(sorted) > tf.Limit
       THEN SubSeq(sorted, 1, tf.Limit)
       ELSE sorted

----------------------------------------------------------------------------
(* The orchestrator, as far as the engine sees it *)

NewOrchestrator(t) ==
    [state |-> OrchestratorStateStale, stateEntryTime |-> t,
     orchestratorBirthTime |-> t, stopRequested |-> FALSE]

\* oc.Stop(): requests the stop; the state changes later, in the orchestrator
Stop(oc) == [oc EXCEPT !.stopRequested = TRUE]

----------------------------------------------------------------------------
(* pubTxManager.poll *)

NoPoll == [ran |-> FALSE]

\* a reap condition that looks at the age of the state only
ReapCondition_AnyState(oc, t) ==
    \/ t - oc.stateEntryTime > maxOrchestratorStale
    \/ oc.state = OrchestratorStateIdle /\ t - oc.stateEntryTime > maxOrchestratorIdle

\* the reap condition: Stale for longer than maxStale or Idle for longer than maxIdle
ReapCondition(oc, t) ==
    \/ oc.state = OrchestratorStateStale /\ t - oc.stateEntryTime > maxOrchestratorStale
    \/ oc.state = OrchestratorStateIdle /\ t - oc.stateEntryTime > maxOrchestratorIdle

\* a copy loop that drops an orchestrator as soon as its stop is requested
NotReadyToBeDeleted_NotStopping(oc) ==
    oc.state # OrchestratorStateStopped /\ ~oc.stopRequested

\* the orchestrators copied across to the new map
NotReadyToBeDeleted(oc) == oc.state # OrchestratorStateStopped

Spaces_NoSubtraction(totalBeforePoll) == maxInFlightOrchestrators

Spaces(totalBeforePoll) == maxInFlightOrchestrators - totalBeforePoll

PausedSigners_None(t) == {}

\* the signers of the pause table that the poll still excludes
PausedSigners(t) ==
    {a \in DOMAIN SigningAddressesPausedUntil : t < SigningAddressesPausedUntil[a]}

PendingQuery_AnySigner(InFlightSigningAddresses, spaces) ==
    PubTransactionQueries({PubTxStatusPending}, NoAddress, NoAddress,
                          {}, "sequence", spaces, FALSE)

PendingQuery(InFlightSigningAddresses, spaces) ==
    PubTransactionQueries({PubTxStatusPending}, NoAddress, NoAddress,
                          InFlightSigningAddresses, "sequence", spaces, FALSE)

OrchestratorExists_Never(inFlight, from) == FALSE

OrchestratorExists(inFlight, from) == from \in DOMAIN inFlight

\* the loop over the returned rows: [inFlight, started], started in row order
RECURSIVE AddOrchestrators(_, _, _)
AddOrchestrators(acc, rows, t) ==
    IF rows = <<>> THEN acc
    ELSE LET from == Head(rows).from
         IN IF ~OrchestratorExists(acc.inFlight, from)
            THEN AddOrchestrators(
                     [inFlight |-> MapPut(acc.inFlight, from, NewOrchestrator(t)),
                      started |-> Append(acc.started, from)],
                     Tail(rows), t)
            ELSE AddOrchestrators(acc, Tail(rows), t)

ExceededProcessTime_AtLeast(oc, t) == t - oc.orchestratorBirthTime >= maxOverloadProcessTime

ExceededProcessTime(oc, t) == t - oc.orchestratorBirthTime > maxOverloadProcessTime

PausedUntil_Now(t) == t

PausedUntil(t) == t + maxOverloadProcessTime

RetryCancelled_NothingPolled(inFlight) ==
    [polled |-> 0, total |-> Cardinality(DOMAIN inFlight)]

\* the return of poll when the retry of the query ends by cancellation
RetryCancelled(inFlight) ==
    [polled |-> -1, total |-> Cardinality(DOMAIN inFlight)]

CountIn(s, a) == Cardinality({i \in 1..Len(s) : s[i] = a})

\* what poll computes: the new map, pause table and return values; cancelled
\* says that the retry of the store query ended with the context cancelled
pollOutcome(cancelled) ==
    LET oldInFlight == InFlightOrchestrators
        stopCalled == {a \in DOMAIN oldInFlight : ReapCondition(oldInFlight[a], now)}
        reaped == [a \in DOMAIN oldInFlight |->
                      IF a \in stopCalled THEN Stop(oldInFlight[a]) ELSE oldInFlight[a]]
        survivors == {a \in DOMAIN reaped : NotReadyToBeDeleted(reaped[a])}
        carried == MapRestrict(reaped, survivors)
        totalBeforePoll == Cardinality(survivors)
        spaces == Spaces(totalBeforePoll)
        common == [ran |-> TRUE, at |-> now, stopCalled |-> stopCalled,
                   removed |-> DOMAIN oldInFlight \ survivors,
                   survivors |-> survivors, spaces |-> spaces,
                   \* the Stop calls on an orchestrator whose stop was requested before
                   stopRepeated |-> {a \in stopCalled : oldInFlight[a].stopRequested},
                   \* oc.MarkInFlightTxStale() and stateCounts of the copy loop
                   markedStale |-> {a \in DOMAIN reaped : NotReadyToBeDeleted(reaped[a])},
                   reapCounts |-> [s \in AllOrchestratorStates |->
                       Cardinality({a \in DOMAIN reaped :
                           NotReadyToBeDeleted(reaped[a]) /\ reaped[a].state = s})]]
    IN IF spaces > 0
       THEN LET InFlightSigningAddresses == survivors \cup PausedSigners(now)
                tf == PendingQuery(InFlightSigningAddresses, spaces)
            IN IF cancelled
               THEN [inFlight |-> carried,
                     pausedUntil |-> SigningAddressesPausedUntil,
                     started |-> <<>>,
                     last |-> common @@
                        [branch |-> "free", cancelled |-> TRUE, queried |-> TRUE,
                         NotFrom |-> tf.NotFrom, limit |-> tf.Limit, rows |-> <<>>,
                         started |-> <<>>, evicted |-> {}, metrics |-> FALSE,
                         polled |-> RetryCancelled(carried).polled,
                         total |-> RetryCancelled(carried).total]]
               ELSE LET rows == ListTransactions(txStore, tf)
                        added == AddOrchestrators([inFlight |-> carried, started |-> <<>>],
                                                  rows, now)
                        total == Cardinality(DOMAIN added.inFlight)
                        polled == IF total > 0 THEN total - totalBeforePoll ELSE 0
                    IN [inFlight |-> added.inFlight,
                        pausedUntil |-> SigningAddressesPausedUntil,
                        started |-> added.started,
                        last |-> common @@
                           [branch |-> "free", cancelled |-> FALSE, queried |-> TRUE,
                            NotFrom |-> tf.NotFrom, limit |-> tf.Limit,
                            rows |-> [i \in 1..Len(rows) |-> rows[i].from],
                            started |-> added.started, evicted |-> {}, metrics |-> TRUE,
                            polled |-> polled, total |-> total]]
       ELSE \* the pool is full: the fairness control
            LET evicted == {a \in survivors : ExceededProcessTime(carried[a], now)}
            IN [inFlight |-> [a \in survivors |->
                                 IF a \in evicted THEN Stop(carried[a]) ELSE carried[a]],
                pausedUntil |-> [a \in DOMAIN SigningAddressesPausedUntil \cup evicted |->
                                    IF a \in evicted THEN PausedUntil(now)
                                    ELSE SigningAddressesPausedUntil[a]],
                started |-> <<>>,
                last |-> common @@
                   [branch |-> "full", cancelled |-> FALSE, queried |-> FALSE,
                    NotFrom |-> {}, limit |-> 0, rows |-> <<>>, started |-> <<>>,
                    evicted |-> evicted, metrics |-> TRUE, polled |-> 0, total |-> 0,
                    \* the evicted whose pause an earlier poll had set already
                    pausedAgain |-> {a \in evicted \cap DOMAIN SigningAddressesPausedUntil :
                        SigningAddressesPausedUntil[a] >
                            carried[a].orchestratorBirthTime + maxOverloadProcessTime}]]

poll(cancelled) ==
    \E r \in {pollOutcome(cancelled)} :
        /\ InFlightOrchestrators' = r.inFlight
        /\ SigningAddressesPausedUntil' = r.pausedUntil
        /\ liveOrchestrators' =
               [a \in Signers |-> liveOrchestrators[a] + CountIn(r.started, a)]
        /\ lastPoll' = r.last

----------------------------------------------------------------------------
(* The engine and its environment, one poll per step *)

\* one wake-up of engineLoop followed by its poll; the context may be cancelled
\* while the poll retries its query, and the poll of a cancelled context only
\* returns from the query by that cancellation
EngineTick ==
    /\ \E cancelled \in BOOLEAN :
          /\ ctxDone => cancelled
          /\ poll(cancelled)
          /\ ctxDone' = (ctxDone \/ (cancelled /\ lastPoll'.queried))
    /\ UNCHANGED <<now, txStore, maxInFlightOrchestrators>>

AdvanceTime ==
    /\ ~ctxDone
    /\ now < MaxTime
    /\ now' = now + 1
    /\ lastPoll' = NoPoll
    /\ UNCHANGED <<txStore, ctxDone, maxInFlightOrchestrators, InFlightOrchestrators, SigningAddressesPausedUntil,
                   liveOrchestrators>>

\* the clock over the longer horizon
AdvanceTimeLong ==
    /\ ~ctxDone
    /\ now < MaxLongTime
    /\ now' = now + 1
    /\ lastPoll' = NoPoll
    /\ UNCHANGED <<txStore, ctxDone, maxInFlightOrchestrators, InFlightOrchestrators, SigningAddressesPausedUntil,
                   liveOrchestrators>>

\* an instant one clock unit further in the past, as far as the durations of the
\* configuration can tell
OneUnitEarlier(t) == IF t > 0 THEN t - 1 ELSE 0

\* time passes without end: up to MaxTime the clock advances; from then on the
\* clock reading is kept and every recorded instant moves one unit into the
\* past instead, which leaves every time.Since and every Before as it would be
TimePasses ==
    /\ ~ctxDone
    /\ IF now < MaxTime
       THEN /\ now' = now + 1
            /\ UNCHANGED <<InFlightOrchestrators, SigningAddressesPausedUntil>>
       ELSE /\ now' = now
            /\ InFlightOrchestrators' =
                   [a \in DOMAIN InFlightOrchestrators |->
                       [InFlightOrchestrators[a] EXCEPT
                           !.stateEntryTime = OneUnitEarlier(@),
                           !.orchestratorBirthTime = OneUnitEarlier(@)]]
            /\ SigningAddressesPausedUntil' =
                   [a \in DOMAIN SigningAddressesPausedUntil |->
                       OneUnitEarlier(SigningAddressesPausedUntil[a])]
    /\ lastPoll' = NoPoll
    /\ UNCHANGED <<txStore, ctxDone, maxInFlightOrchestrators, liveOrchestrators>>

\* a tick of the engine while the context is live
EngineTickLive ==
    /\ ~ctxDone
    /\ poll(FALSE)
    /\ UNCHANGED <<now, txStore, ctxDone, maxInFlightOrchestrators>>

NewPublicTx(id, from, to, nonce, hasValue) ==
    [id |-> id, from |-> from, to |-> to, nonce |-> nonce,
     status |-> PubTxStatusPending, hasValue |-> hasValue]

\* an upstream component persists a new public transaction
SubmitTransaction(from) ==
    /\ ~ctxDone
    /\ Len(txStore) < MaxTxs
    /\ txStore' = Append(txStore, NewPublicTx(Len(txStore) + 1, from, NoAddress, 0, FALSE))
    /\ lastPoll' = NoPoll
    /\ UNCHANGED <<now, ctxDone, maxInFlightOrchestrators, InFlightOrchestrators, SigningAddressesPausedUntil,
                   liveOrchestrators>>

\* the orchestrator's own state changes: work arrives, the queue empties
OrchestratorNextStates(state) ==
    IF state = OrchestratorStateStale THEN {OrchestratorStateRunning}
    ELSE IF state = OrchestratorStateRunning THEN {OrchestratorStateIdle}
    ELSE IF state = OrchestratorStateIdle THEN {OrchestratorStateRunning}
    ELSE {}

OrchestratorChangesState(a) ==
    /\ ~ctxDone
    /\ a \in DOMAIN InFlightOrchestrators
    /\ ~InFlightOrchestrators[a].stopRequested
    /\ \E s \in OrchestratorNextStates(InFlightOrchestrators[a].state) :
           InFlightOrchestrators' =
               [InFlightOrchestrators EXCEPT ![a].state = s, ![a].stateEntryTime = now]
    /\ lastPoll' = NoPoll
    /\ UNCHANGED <<now, txStore, ctxDone, maxInFlightOrchestrators, SigningAddressesPausedUntil, liveOrchestrators>>

\* an orchestrator that takes itself out of the engine's map when it stops
OrchestratorStops_RemovesItself(a) ==
    /\ ~ctxDone
    /\ a \in DOMAIN InFlightOrchestrators
    /\ InFlightOrchestrators[a].stopRequested
    /\ InFlightOrchestrators[a].state # OrchestratorStateStopped
    /\ InFlightOrchestrators' = MapRestrict(InFlightOrchestrators, DOMAIN InFlightOrchestrators \ {a})
    /\ liveOrchestrators' = [liveOrchestrators EXCEPT ![a] = @ - 1]
    /\ lastPoll' = NoPoll
    /\ UNCHANGED <<now, txStore, ctxDone, maxInFlightOrchestrators, SigningAddressesPausedUntil>>

\* the orchestrator acts on a requested stop and reports Stopped
OrchestratorStops(a) ==
    /\ ~ctxDone
    /\ a \in DOMAIN InFlightOrchestrators
    /\ InFlightOrchestrators[a].stopRequested
    /\ InFlightOrchestrators[a].state # OrchestratorStateStopped
    /\ InFlightOrchestrators' =
           [InFlightOrchestrators EXCEPT ![a].state = OrchestratorStateStopped,
                                         ![a].stateEntryTime = now]
    /\ liveOrchestrators' = [liveOrchestrators EXCEPT ![a] = @ - 1]
    /\ lastPoll' = NoPoll
    /\ UNCHANGED <<now, txStore, ctxDone, maxInFlightOrchestrators, SigningAddressesPausedUntil>>

\* a fatal error stops a running orchestrator without a request of the engine
OrchestratorFails(a) ==
    /\ ~ctxDone
    /\ a \in DOMAIN InFlightOrchestrators
    /\ ~InFlightOrchestrators[a].stopRequested
    /\ InFlightOrchestrators[a].state = OrchestratorStateRunning
    /\ InFlightOrchestrators' =
           [InFlightOrchestrators EXCEPT ![a].state = OrchestratorStateStopped,
                                         ![a].stateEntryTime = now]
    /\ liveOrchestrators' = [liveOrchestrators EXCEPT ![a] = @ - 1]
    /\ lastPoll' = NoPoll
    /\ UNCHANGED <<now, txStore, ctxDone, maxInFlightOrchestrators, SigningAddressesPausedUntil>>

InitEngine ==
    /\ now = 0
    /\ ctxDone = FALSE
    /\ maxInFlightOrchestrators \in PoolSizes
    /\ InFlightOrchestrators = EmptyMap
    /\ SigningAddressesPausedUntil = EmptyMap
    /\ liveOrchestrators = [a \in Signers |-> 0]
    /\ lastPoll = NoPoll

----------------------------------------------------------------------------
(* engineLoop and MarkInFlightOrchestratorsStale *)

\* the buffer of the InFlightOrchestratorStale channel
StaleChannelBuffer == 1
\* the buffer of a time.Ticker's channel
TickerChannelBuffer == 1

NoMark == [ran |-> FALSE]

NewWindow(carried) == [calls |-> 0, dropped |-> 0, polls |-> 0, carried |-> carried]

\* a send on the channel that would block when the buffer is full
MarkInFlightOrchestratorsStale_BlockingSend ==
    /\ InFlightOrchestratorStale < StaleChannelBuffer
    /\ InFlightOrchestratorStale' = InFlightOrchestratorStale + 1

\* a call that never puts a signal in the channel
MarkInFlightOrchestratorsStale_NoSend ==
    InFlightOrchestratorStale' = InFlightOrchestratorStale

\* select { case ble.InFlightOrchestratorStale <- true: default: }
MarkInFlightOrchestratorsStale ==
    InFlightOrchestratorStale' =
        IF InFlightOrchestratorStale < StaleChannelBuffer
        THEN InFlightOrchestratorStale + 1
        ELSE InFlightOrchestratorStale

\* the store writer or an orchestrator calls MarkInFlightOrchestratorsStale
CallerMarksStale ==
    /\ staleWindow.calls < MaxStaleCalls
    /\ MarkInFlightOrchestratorsStale
    /\ staleWindow' =
           [staleWindow EXCEPT !.calls = @ + 1,
                               !.dropped = IF InFlightOrchestratorStale' = InFlightOrchestratorStale
                                           THEN @ + 1 ELSE @]
    /\ lastMark' = [ran |-> TRUE, before |-> InFlightOrchestratorStale]
    /\ pollOwed' = TRUE
    /\ lastPoll' = NoPoll
    /\ UNCHANGED <<tickerC, enginePC, wokenBy, engineLoopDone>>
    /\ UNCHANGED <<now, txStore, ctxDone, maxInFlightOrchestrators, InFlightOrchestrators,
                   SigningAddressesPausedUntil, liveOrchestrators>>

\* the stale-woken poll that is running, if any
StalePollRunning == IF enginePC = "poll" /\ wokenBy = "stale" THEN 1 ELSE 0

\* the ticker delivers a tick, or drops it when its channel is full
TickerFires ==
    /\ ~engineLoopDone
    /\ tickerC' = IF tickerC < TickerChannelBuffer THEN tickerC + 1 ELSE tickerC
    /\ staleWindow' = NewWindow(InFlightOrchestratorStale + StalePollRunning)
    /\ lastMark' = NoMark
    /\ UNCHANGED pollOwed
    /\ lastPoll' = NoPoll
    /\ UNCHANGED <<InFlightOrchestratorStale, enginePC, wokenBy, engineLoopDone>>
    /\ UNCHANGED <<now, txStore, ctxDone, maxInFlightOrchestrators, InFlightOrchestrators,
                   SigningAddressesPausedUntil, liveOrchestrators>>

\* the engine context is cancelled
CancelContext ==
    /\ ~ctxDone
    /\ ctxDone' = TRUE
    /\ lastMark' = NoMark
    /\ UNCHANGED pollOwed
    /\ lastPoll' = NoPoll
    /\ UNCHANGED <<InFlightOrchestratorStale, tickerC, enginePC, wokenBy, engineLoopDone,
                   staleWindow>>
    /\ UNCHANGED <<now, txStore, maxInFlightOrchestrators, InFlightOrchestrators,
                   SigningAddressesPausedUntil, liveOrchestrators>>

\* case <-ticker.C
SelectTicker ==
    /\ enginePC = "select"
    /\ tickerC > 0
    /\ tickerC' = tickerC - 1
    /\ enginePC' = "poll"
    /\ wokenBy' = "ticker"
    /\ lastMark' = NoMark
    /\ pollOwed' = FALSE
    /\ lastPoll' = NoPoll
    /\ UNCHANGED <<InFlightOrchestratorStale, engineLoopDone, staleWindow>>
    /\ UNCHANGED <<now, txStore, ctxDone, maxInFlightOrchestrators, InFlightOrchestrators,
                   SigningAddressesPausedUntil, liveOrchestrators>>

\* case <-ble.InFlightOrchestratorStale
SelectStale ==
    /\ enginePC = "select"
    /\ InFlightOrchestratorStale > 0
    /\ InFlightOrchestratorStale' = InFlightOrchestratorStale - 1
    /\ enginePC' = "poll"
    /\ wokenBy' = "stale"
    /\ lastMark' = NoMark
    /\ pollOwed' = FALSE
    /\ lastPoll' = NoPoll
    /\ UNCHANGED <<tickerC, engineLoopDone, staleWindow>>
    /\ UNCHANGED <<now, txStore, ctxDone, maxInFlightOrchestrators, InFlightOrchestrators,
                   SigningAddressesPausedUntil, liveOrchestrators>>

\* a loop that polls once more on cancellation instead of returning
SelectDone_PollsOn ==
    /\ enginePC = "select"
    /\ ctxDone
    /\ enginePC' = "poll"
    /\ lastMark' = NoMark
    /\ pollOwed' = FALSE
    /\ lastPoll' = NoPoll
    /\ UNCHANGED <<InFlightOrchestratorStale, tickerC, wokenBy, staleWindow, engineLoopDone>>
    /\ UNCHANGED <<now, txStore, ctxDone, maxInFlightOrchestrators, InFlightOrchestrators,
                   SigningAddressesPausedUntil, liveOrchestrators>>

\* case <-ctx.Done(): ticker.Stop(), return, and the deferred close(engineLoopDone)
SelectDone ==
    /\ enginePC = "select"
    /\ ctxDone
    /\ enginePC' = "exited"
    /\ engineLoopDone' = TRUE
    /\ lastMark' = NoMark
    /\ UNCHANGED pollOwed
    /\ lastPoll' = NoPoll
    /\ UNCHANGED <<InFlightOrchestratorStale, tickerC, wokenBy, staleWindow>>
    /\ UNCHANGED <<now, txStore, ctxDone, maxInFlightOrchestrators, InFlightOrchestrators,
                   SigningAddressesPausedUntil, liveOrchestrators>>

\* polled, total := ble.poll(ctx), and back to the select
EnginePoll ==
    /\ enginePC = "poll"
    /\ poll(ctxDone)
    /\ enginePC' = "select"
    /\ staleWindow' = [staleWindow EXCEPT !.polls = @ + StalePollRunning]
    /\ lastMark' = NoMark
    /\ UNCHANGED pollOwed
    /\ UNCHANGED <<InFlightOrchestratorStale, tickerC, wokenBy, engineLoopDone>>
    /\ UNCHANGED <<now, txStore, ctxDone, maxInFlightOrchestrators>>

InitWake ==
    /\ InFlightOrchestratorStale = 0
    /\ tickerC = 0
    /\ enginePC = "select"
    /\ wokenBy = "none"
    /\ engineLoopDone = FALSE
    /\ staleWindow = NewWindow(0)
    /\ lastMark = NoMark
    /\ pollOwed = FALSE

----------------------------------------------------------------------------
(* The completed-nonce cache: CheckTransactionCompleted and updateCompletedTxNonce *)

Callers == {"c1", "c2"}

TxOf(store) == {store[i] : i \in 1..Len(store)}
NoCaller == "none"

NoCall == [ran |-> FALSE]
Idle == [pc |-> "idle"]

\* completedTxNonce, exists := ble.completedTxNoncePerAddress[string(tx.From)]
CacheLookup(cache, from) ==
    IF from \in DOMAIN cache
    THEN [exists |-> TRUE, completedTxNonce |-> cache[from]]
    ELSE [exists |-> FALSE, completedTxNonce |-> 0]

CompletedQuery_AnySigner(from) ==
    PubTransactionQueries({PubTxStatusSucceeded, PubTxStatusFailed}, NoAddress, NoAddress,
                          {}, "-nonce", 1, FALSE)

\* the query for the highest-nonce Succeeded or Failed transaction of a signer
CompletedQuery(from) ==
    PubTransactionQueries({PubTxStatusSucceeded, PubTxStatusFailed}, from, NoAddress,
                          {}, "-nonce", 1, FALSE)

NonceCompleted_Strict(completedTxNonce, nonce) == completedTxNonce > nonce

\* completedTxNonce.Cmp(tx.Nonce.BigInt()) >= 0
NonceCompleted(completedTxNonce, nonce) == completedTxNonce >= nonce

IsCompletedStatus(status) ==
    status = PubTxStatusSucceeded \/ status = PubTxStatusFailed

NonceIsLower_Differs(currentNonce, nonce) == currentNonce # nonce

\* currentNonce.Cmp(tx.Nonce.BigInt()) == -1
NonceIsLower(currentNonce, nonce) == currentNonce < nonce

updateCompletedTxNonce_NoWrite(cache, tx) == [cache |-> cache, updated |-> FALSE]

\* the body of updateCompletedTxNonce, run with the mutex held
updateCompletedTxNonce(cache, tx) ==
    IF ~IsCompletedStatus(tx.status)
    THEN [cache |-> cache, updated |-> FALSE]
    ELSE IF tx.from \notin DOMAIN cache \/ NonceIsLower(cache[tx.from], tx.nonce)
         THEN [cache |-> MapPut(cache, tx.from, tx.nonce), updated |-> TRUE]
         ELSE [cache |-> cache, updated |-> FALSE]

UnchangedPoolAndWake ==
    UNCHANGED <<now, ctxDone, maxInFlightOrchestrators, InFlightOrchestrators,
                SigningAddressesPausedUntil, liveOrchestrators, lastPoll, wakeVars>>

\* what CheckTransactionCompleted hands back, with what it saw on the way
CheckReturned(tx, seen, storeFailed, storeNonces, completed) ==
    [ran |-> TRUE, tx |-> tx, seen |-> seen, storeFailed |-> storeFailed,
     storeNonces |-> storeNonces, completed |-> completed]

\* the nonces of the Succeeded and Failed transactions of a signer in the store
TerminalNonces(store, from) ==
    {store[i].nonce : i \in {j \in 1..Len(store) :
        /\ store[j].from = from
        /\ store[j].status \in {PubTxStatusSucceeded, PubTxStatusFailed}}}

\* a caller enters CheckTransactionCompleted(tx)
BeginCheckTransactionCompleted(c, tx) ==
    /\ ~fatalError
    /\ callers[c].pc = "idle"
    /\ callers' = [callers EXCEPT ![c] = [pc |-> "CTC_lookup", tx |-> tx]]
    /\ lastCheck' = NoCall
    /\ lastUpdate' = NoCall
    /\ UNCHANGED <<txStore, completedTxNoncePerAddress, completedTxNoncePerAddressMutex,
                   fatalError>>
    /\ UnchangedPoolAndWake

\* another caller is inside updateCompletedTxNonce, about to write the map
WriterActive(c) == \E w \in Callers \ {c} : callers[w].pc = "UCN_locked"

\* the map lookup, made without the mutex; on a hit the comparison and the return
CheckLookup(c) ==
    /\ ~fatalError
    /\ callers[c].pc = "CTC_lookup"
    /\ LET tx == callers[c].tx
           got == CacheLookup(completedTxNoncePerAddress, tx.from)
           seen == IF tx.from \in DOMAIN completedTxNoncePerAddress
                   THEN <<completedTxNoncePerAddress[tx.from]>> ELSE <<>>
       IN \/ /\ got.exists
             /\ callers' = [callers EXCEPT ![c] = Idle]
             /\ lastCheck' = CheckReturned(tx, seen, FALSE, {},
                                            NonceCompleted(got.completedTxNonce, tx.nonce))
             /\ UNCHANGED fatalError
          \/ /\ ~got.exists
             /\ callers' = [callers EXCEPT ![c] = [pc |-> "CTC_query", tx |-> tx]]
             /\ lastCheck' = NoCall
             /\ UNCHANGED fatalError
          \/ \* a map read concurrent with a map write: the runtime may end the process
             /\ WriterActive(c)
             /\ fatalError' = TRUE
             /\ lastCheck' = NoCall
             /\ UNCHANGED callers
    /\ lastUpdate' = NoCall
    /\ UNCHANGED <<txStore, completedTxNoncePerAddress, completedTxNoncePerAddressMutex>>
    /\ UnchangedPoolAndWake

\* the store query of the miss path: an error or no row ends the call with false
CheckQuery(c, storeFails) ==
    /\ ~fatalError
    /\ callers[c].pc = "CTC_query"
    /\ LET tx == callers[c].tx
           txs == ListTransactions(txStore, CompletedQuery(tx.from))
           inStore == TerminalNonces(txStore, tx.from)
       IN IF storeFails
          THEN /\ callers' = [callers EXCEPT ![c] = Idle]
               /\ lastCheck' = CheckReturned(tx, <<>>, TRUE, inStore, FALSE)
          ELSE IF Len(txs) > 0
          THEN /\ callers' = [callers EXCEPT ![c] =
                                  [pc |-> "UCN_lock", op |-> "check", tx |-> tx,
                                   utx |-> txs[1], inStore |-> inStore]]
               /\ lastCheck' = NoCall
          ELSE /\ callers' = [callers EXCEPT ![c] = Idle]
               /\ lastCheck' = CheckReturned(tx, <<>>, FALSE, inStore, FALSE)
    /\ lastUpdate' = NoCall
    /\ UNCHANGED <<txStore, completedTxNoncePerAddress, completedTxNoncePerAddressMutex,
                   fatalError>>
    /\ UnchangedPoolAndWake

\* a caller enters updateCompletedTxNonce(tx)
BeginUpdateCompletedTxNonce(c, tx) ==
    /\ ~fatalError
    /\ callers[c].pc = "idle"
    /\ callers' = [callers EXCEPT ![c] =
                       [pc |-> "UCN_lock", op |-> "update", tx |-> tx, utx |-> tx,
                        inStore |-> {}]]
    /\ lastCheck' = NoCall
    /\ lastUpdate' = NoCall
    /\ UNCHANGED <<txStore, completedTxNoncePerAddress, completedTxNoncePerAddressMutex,
                   fatalError>>
    /\ UnchangedPoolAndWake

\* ble.completedTxNoncePerAddressMutex.Lock()
UpdateLock(c) ==
    /\ ~fatalError
    /\ callers[c].pc = "UCN_lock"
    /\ completedTxNoncePerAddressMutex = NoCaller
    /\ completedTxNoncePerAddressMutex' = c
    /\ callers' = [callers EXCEPT ![c].pc = "UCN_locked"]
    /\ lastCheck' = NoCall
    /\ lastUpdate' = NoCall
    /\ UNCHANGED <<txStore, completedTxNoncePerAddress, fatalError>>
    /\ UnchangedPoolAndWake

\* the body of updateCompletedTxNonce, the deferred Unlock and the return; within
\* CheckTransactionCompleted the comparison with txs[0].Nonce and its return follow
UpdateAndReturn(c) ==
    /\ ~fatalError
    /\ callers[c].pc = "UCN_locked"
    /\ \E r \in {updateCompletedTxNonce(completedTxNoncePerAddress, callers[c].utx)} :
          /\ completedTxNoncePerAddress' = r.cache
          /\ lastUpdate' = [ran |-> TRUE, tx |-> callers[c].utx, updated |-> r.updated]
    /\ completedTxNoncePerAddressMutex' = NoCaller
    /\ callers' = [callers EXCEPT ![c] = Idle]
    /\ lastCheck' =
           IF callers[c].op = "check"
           THEN CheckReturned(callers[c].tx, <<>>, FALSE, callers[c].inStore,
                              NonceCompleted(callers[c].utx.nonce, callers[c].tx.nonce))
           ELSE NoCall
    /\ UNCHANGED <<txStore, fatalError>>
    /\ UnchangedPoolAndWake

\* a transaction of the store reaches a terminal status
TransactionCompletes(i, status) ==
    /\ ~fatalError
    /\ i \in 1..Len(txStore)
    /\ ~IsCompletedStatus(txStore[i].status)
    /\ txStore' = [txStore EXCEPT ![i].status = status]
    /\ lastCheck' = NoCall
    /\ lastUpdate' = NoCall
    /\ UNCHANGED <<completedTxNoncePerAddress, completedTxNoncePerAddressMutex, callers,
                   fatalError>>
    /\ UnchangedPoolAndWake

InitCache ==
    /\ completedTxNoncePerAddress = EmptyMap
    /\ completedTxNoncePerAddressMutex = NoCaller
    /\ callers = [c \in Callers |-> Idle]
    /\ fatalError = FALSE
    /\ lastCheck = NoCall
    /\ lastUpdate = NoCall

\* the transactions the callers of the cache work on
CacheStore ==
    <<NewPublicTx(1, "A", NoAddress, 0, FALSE), NewPublicTx(2, "A", NoAddress, 1, FALSE),
      NewPublicTx(3, "B", NoAddress, 0, FALSE)>>

----------------------------------------------------------------------------
(* The fueling manager: GetPendingFuelingTransaction and the fueling request *)

FundingAddress == "F"
Destinations == {"A", "B"}

PendingFuelingQuery_AnyDestination(sourceAddress, destinationAddress) ==
    PubTransactionQueries({PubTxStatusPending}, sourceAddress, NoAddress, {}, "-nonce",
                          1, TRUE)

PendingFuelingQuery_AnyValue(sourceAddress, destinationAddress) ==
    PubTransactionQueries({PubTxStatusPending}, sourceAddress, destinationAddress, {},
                          "-nonce", 1, FALSE)

\* the filter of GetPendingFuelingTransaction
PendingFuelingQuery(sourceAddress, destinationAddress) ==
    PubTransactionQueries({PubTxStatusPending}, sourceAddress, destinationAddress, {},
                          "-nonce", 1, TRUE)

\* the transaction returned when the store answers: <<tx>>, or <<>> for nil
GetPendingFuelingTransaction(store, sourceAddress, destinationAddress) ==
    LET txs == ListTransactions(store, PendingFuelingQuery(sourceAddress, destinationAddress))
    IN IF Len(txs) > 0 THEN <<txs[1]>> ELSE <<>>

\* CheckTransactionCompleted run without another caller in between
CheckTransactionCompleted(cache, store, tx, storeFails) ==
    LET got == CacheLookup(cache, tx.from)
        txs == ListTransactions(store, CompletedQuery(tx.from))
    IN IF got.exists
       THEN [cache |-> cache, completed |-> NonceCompleted(got.completedTxNonce, tx.nonce)]
       ELSE IF storeFails THEN [cache |-> cache, completed |-> FALSE]
       ELSE IF Len(txs) > 0
       THEN [cache |-> updateCompletedTxNonce(cache, txs[1]).cache,
             completed |-> NonceCompleted(txs[1].nonce, tx.nonce)]
       ELSE [cache |-> cache, completed |-> FALSE]

\* the nonce given to the next transaction of a signer
NextNonce(store, from) == Cardinality({i \in 1..Len(store) : store[i].from = from})

\* the fueling requests that have looked up and not yet decided
RequestsInProgress == Cardinality({c \in Callers : callers[c].pc = "FUEL_found"})

\* step 1 of a fueling request: the lookup of a pending fueling transaction to the
\* destination; a store error is returned to the requester
RequestFuelLookup(c, destination, storeFails) ==
    /\ callers[c].pc = "idle"
    /\ Len(txStore) + RequestsInProgress < MaxTxs
    /\ LET found == GetPendingFuelingTransaction(txStore, FundingAddress, destination)
           pending == {tx \in TxOf(txStore) :
                          /\ tx.status = PubTxStatusPending
                          /\ tx.from = FundingAddress
                          /\ tx.to = destination
                          /\ tx.hasValue}
       IN IF storeFails
          THEN /\ callers' = callers
               /\ lastFueling' = [ran |-> TRUE, destination |-> destination, err |-> TRUE,
                                   found |-> <<>>, pending |-> pending, completed |-> FALSE,
                                   id |-> 0, storeBefore |-> Len(txStore)]
          ELSE /\ callers' = [callers EXCEPT ![c] =
                                  [pc |-> "FUEL_found", destination |-> destination,
                                   found |-> found, pending |-> pending]]
               /\ lastFueling' = NoCall
    /\ lastCheck' = NoCall
    /\ lastUpdate' = NoCall
    /\ UNCHANGED <<txStore, completedTxNoncePerAddress, completedTxNoncePerAddressMutex,
                   fatalError>>
    /\ UnchangedPoolAndWake

\* step 2 of a fueling request: a transaction found and not completed is returned;
\* otherwise a new transaction with value goes from the funding address to the
\* destination into the store
RequestFuelDecide(c, storeFails) ==
    /\ callers[c].pc = "FUEL_found"
    /\ LET found == callers[c].found
           destination == callers[c].destination
           check == IF found # <<>>
                    THEN CheckTransactionCompleted(completedTxNoncePerAddress, txStore,
                                                   found[1], storeFails)
                    ELSE [cache |-> completedTxNoncePerAddress, completed |-> FALSE]
           existing == found # <<>> /\ ~check.completed
           newTx == NewPublicTx(Len(txStore) + 1, FundingAddress, destination,
                                NextNonce(txStore, FundingAddress), TRUE)
       IN /\ (found = <<>>) => ~storeFails
          /\ completedTxNoncePerAddress' = check.cache
          /\ txStore' = IF existing THEN txStore ELSE Append(txStore, newTx)
          /\ lastFueling' = [ran |-> TRUE, destination |-> destination, err |-> FALSE,
                              found |-> found, pending |-> callers[c].pending,
                              completed |-> check.completed,
                              id |-> IF existing THEN found[1].id ELSE newTx.id,
                              storeBefore |-> Len(txStore)]
    /\ callers' = [callers EXCEPT ![c] = Idle]
    /\ lastCheck' = NoCall
    /\ lastUpdate' = NoCall
    /\ UNCHANGED <<completedTxNoncePerAddressMutex, fatalError>>
    /\ UnchangedPoolAndWake

\* the other transactions in the store: one of the funding address without value,
\* and one with value of another signer
OtherTransactions == {<<FundingAddress, "A", FALSE>>, <<"A", "B", TRUE>>}

SubmitOtherTransaction(from, to, hasValue) ==
    /\ Len(txStore) + RequestsInProgress < MaxTxs
    /\ txStore' = Append(txStore, NewPublicTx(Len(txStore) + 1, from, to,
                                               NextNonce(txStore, from), hasValue))
    /\ lastFueling' = NoCall
    /\ lastCheck' = NoCall
    /\ lastUpdate' = NoCall
    /\ UNCHANGED <<completedTxNoncePerAddress, completedTxNoncePerAddressMutex, callers,
                   fatalError>>
    /\ UnchangedPoolAndWake

\* the ledger completes the transactions of a signer in the order of their nonces
InNonceOrder(i) ==
    \A j \in 1..Len(txStore) :
        (txStore[j].from = txStore[i].from /\ txStore[j].nonce < txStore[i].nonce) =>
            IsCompletedStatus(txStore[j].status)

\* the orchestrator of the signer passes a completed transaction to
\* updateCompletedTxNonce
OrchestratorRecordsCompletion(i) ==
    /\ IsCompletedStatus(txStore[i].status)
    /\ \E r \in {updateCompletedTxNonce(completedTxNoncePerAddress, txStore[i])} :
          /\ r.updated
          /\ completedTxNoncePerAddress' = r.cache
    /\ lastFueling' = NoCall
    /\ lastCheck' = NoCall
    /\ lastUpdate' = NoCall
    /\ UNCHANGED <<txStore, completedTxNoncePerAddressMutex, callers, fatalError>>
    /\ UnchangedPoolAndWake

InitFuel == lastFueling = NoCall

----------------------------------------------------------------------------
(* The submission lifecycle: orchestrator, base ledger and confirmation tracker *)

LedgerSigners == {"A"}
InitialLedgerNonce == 5
ConfirmationThreshold == 3

NoLedgerEvent == [kind |-> "none"]

\* the nonce is assigned at the first submission: a Pending transaction has none
HasNonce(tx) == tx.status # PubTxStatusPending

Receipts(blocks) == UNION {blocks[b] : b \in 1..Len(blocks)}

HasReceipt(blocks, id) == \E r \in Receipts(blocks) : r.id = id

\* the next nonce the ledger accepts from an account
AccountNonce(from) ==
    InitialLedgerNonce + Cardinality({r \in Receipts(chain) : txStore[r.id].from = from})

NextLedgerNonce_Same(counter) == counter

\* the orchestrator's counter, seeded from the base ledger and advanced locally
NextLedgerNonce(counter) == counter + 1

UpdateStatusAllowed_Always(store, id, newStatus) == TRUE

\* UpdateStatus rejects Succeeded while a lower nonce of the signer is non-terminal
UpdateStatusAllowed(store, id, newStatus) ==
    newStatus = PubTxStatusSucceeded =>
        \A j \in 1..Len(store) :
            (/\ store[j].from = store[id].from
             /\ HasNonce(store[j])
             /\ store[j].nonce < store[id].nonce) => IsCompletedStatus(store[j].status)

UnchangedByLedger ==
    UNCHANGED <<now, ctxDone, maxInFlightOrchestrators, InFlightOrchestrators,
                SigningAddressesPausedUntil, liveOrchestrators, lastPoll, wakeVars,
                completedTxNoncePerAddressMutex, callers, fatalError, lastCheck,
                lastUpdate, fuelVars, subVars, msgVars, stageVars>>

\* SubmitPublicTransaction: a new Pending transaction without a nonce
EnqueueTransaction(from) ==
    /\ Len(txStore) < MaxTxs
    /\ txStore' = Append(txStore, NewPublicTx(Len(txStore) + 1, from, NoAddress, 0, FALSE))
    /\ lastLedgerEvent' = NoLedgerEvent
    /\ UNCHANGED <<completedTxNoncePerAddress, nextNonce, broadcastHash, chain,
                   inFlightQueue, succeededOrder>>
    /\ UnchangedByLedger

\* steps 1 to 4 of the orchestrator for the oldest Pending transaction of its signer:
\* assign the next nonce, persist, broadcast
OrchestratorSubmits(id) ==
    /\ id \in 1..Len(txStore)
    /\ txStore[id].status = PubTxStatusPending
    /\ \A j \in 1..(id - 1) :
          txStore[j].from = txStore[id].from => txStore[j].status # PubTxStatusPending
    /\ txStore' = [txStore EXCEPT ![id].nonce = nextNonce[txStore[id].from],
                                   ![id].status = PubTxStatusSubmitted]
    /\ nextNonce' = [nextNonce EXCEPT ![txStore[id].from] = NextLedgerNonce(@)]
    /\ broadcastHash' = MapPut(broadcastHash, id, 1)
    /\ inFlightQueue' = inFlightQueue \cup {id}
    /\ lastLedgerEvent' = NoLedgerEvent
    /\ UNCHANGED <<completedTxNoncePerAddress, chain, succeededOrder>>
    /\ UnchangedByLedger

\* a replacement: the same transaction broadcast again with a bumped fee
OrchestratorRebroadcasts(id) ==
    /\ id \in 1..Len(txStore)
    /\ txStore[id].status = PubTxStatusSubmitted
    /\ ~HasReceipt(chain, id)
    /\ broadcastHash[id] < MaxBroadcasts
    /\ broadcastHash' = [broadcastHash EXCEPT ![id] = @ + 1]
    /\ lastLedgerEvent' = NoLedgerEvent
    /\ UNCHANGED <<txStore, completedTxNoncePerAddress, nextNonce, chain, inFlightQueue,
                   succeededOrder>>
    /\ UnchangedByLedger

\* the attempts of a broadcast are used up: the transaction is suspended
OrchestratorSuspends(id) ==
    /\ id \in 1..Len(txStore)
    /\ txStore[id].status = PubTxStatusSubmitted
    /\ ~HasReceipt(chain, id)
    /\ broadcastHash[id] < MaxBroadcasts
    /\ txStore' = [txStore EXCEPT ![id].status = PubTxStatusSuspended]
    /\ lastLedgerEvent' = NoLedgerEvent
    /\ UNCHANGED <<completedTxNoncePerAddress, nextNonce, broadcastHash, chain,
                   inFlightQueue, succeededOrder>>
    /\ UnchangedByLedger

\* a suspended transaction is resumed: broadcast again with a bumped fee
OrchestratorResumes(id) ==
    /\ id \in 1..Len(txStore)
    /\ txStore[id].status = PubTxStatusSuspended
    /\ txStore' = [txStore EXCEPT ![id].status = PubTxStatusSubmitted]
    /\ broadcastHash' = [broadcastHash EXCEPT ![id] = @ + 1]
    /\ lastLedgerEvent' = NoLedgerEvent
    /\ UNCHANGED <<completedTxNoncePerAddress, nextNonce, chain, inFlightQueue,
                   succeededOrder>>
    /\ UnchangedByLedger

\* the ledger includes a broadcast transaction, in the nonce order of its account, in
\* a new block of its own; ok is the status of the receipt (1 or 0)
LedgerMines(id, ok) ==
    /\ Len(chain) < MaxBlocks
    /\ id \in 1..Len(txStore)
    /\ txStore[id].status = PubTxStatusSubmitted
    /\ ~HasReceipt(chain, id)
    /\ txStore[id].nonce = AccountNonce(txStore[id].from)
    /\ chain' = Append(chain, {[id |-> id, ok |-> ok]})
    /\ lastLedgerEvent' = NoLedgerEvent
    /\ UNCHANGED <<txStore, completedTxNoncePerAddress, nextNonce, broadcastHash,
                   inFlightQueue, succeededOrder>>
    /\ UnchangedByLedger

\* the confirmation tracker resolves the receipt of one outstanding transaction, in
\* any order: status 1 marks it Succeeded, status 0 Failed, both update the
\* completed-nonce cache; an update the store rejects changes nothing
TrackerProcessesReceipt(id) ==
    /\ id \in 1..Len(txStore)
    /\ txStore[id].status = PubTxStatusSubmitted
    /\ \E r \in {x \in Receipts(chain) : x.id = id} :
          LET newStatus == IF r.ok THEN PubTxStatusSucceeded ELSE PubTxStatusFailed
              marked == [txStore[id] EXCEPT !.status = newStatus]
          IN IF UpdateStatusAllowed(txStore, id, newStatus)
             THEN /\ txStore' = [txStore EXCEPT ![id] = marked]
                  /\ completedTxNoncePerAddress' =
                         updateCompletedTxNonce(completedTxNoncePerAddress, marked).cache
                  /\ inFlightQueue' = inFlightQueue \ {id}
                  /\ succeededOrder' =
                         IF r.ok
                         THEN [succeededOrder EXCEPT ![marked.from] = Append(@, marked.nonce)]
                         ELSE succeededOrder
                  /\ lastLedgerEvent' = [kind |-> "update", id |-> id,
                                          status |-> newStatus, rejected |-> FALSE]
             ELSE /\ lastLedgerEvent' = [kind |-> "update", id |-> id,
                                          status |-> newStatus, rejected |-> TRUE]
                  /\ UNCHANGED <<txStore, completedTxNoncePerAddress, inFlightQueue,
                                 succeededOrder>>
    /\ UNCHANGED <<nextNonce, broadcastHash, chain>>
    /\ UnchangedByLedger

UnmarkedByReorg_EveryReceipt(dropped) ==
    {r.id : r \in {x \in dropped : IsCompletedStatus(txStore[x.id].status)}}

\* the transactions a reorg un-marks: those marked Succeeded by a dropped receipt
UnmarkedByReorg(dropped) ==
    {r.id : r \in {x \in dropped : txStore[x.id].status = PubTxStatusSucceeded}}

\* a reorg drops block b and the blocks after it, b being below the threshold depth;
\* the transactions marked Succeeded by a dropped receipt are un-marked and return to
\* the in-flight queue
Reorg(b) ==
    /\ b \in 1..Len(chain)
    /\ Len(chain) - b + 1 < ConfirmationThreshold
    /\ LET dropped == UNION {chain[k] : k \in b..Len(chain)}
           unmarked == UnmarkedByReorg(dropped)
           kept(from) == {txStore[i].nonce : i \in {j \in 1..Len(txStore) :
                              /\ j \notin unmarked
                              /\ txStore[j].from = from
                              /\ txStore[j].status = PubTxStatusSucceeded}}
       IN /\ txStore' = [i \in 1..Len(txStore) |->
                            IF i \in unmarked
                            THEN [txStore[i] EXCEPT !.status = PubTxStatusSubmitted]
                            ELSE txStore[i]]
          /\ inFlightQueue' = inFlightQueue \cup unmarked
          /\ succeededOrder' = [a \in LedgerSigners |->
                                   SelectSeq(succeededOrder[a], LAMBDA n : n \in kept(a))]
          /\ lastLedgerEvent' = [kind |-> "reorg", unmarked |-> unmarked,
                                  cacheBefore |-> completedTxNoncePerAddress]
    /\ chain' = SubSeq(chain, 1, b - 1)
    /\ UNCHANGED <<completedTxNoncePerAddress, nextNonce, broadcastHash>>
    /\ UnchangedByLedger

InitLedger ==
    /\ nextNonce = [a \in LedgerSigners |-> InitialLedgerNonce]
    /\ broadcastHash = EmptyMap
    /\ chain = <<>>
    /\ inFlightQueue = {}
    /\ succeededOrder = [a \in LedgerSigners |-> <<>>]
    /\ lastLedgerEvent = NoLedgerEvent

----------------------------------------------------------------------------
(* The receipt event streams: rpcEventStreams and receiptListenerSubscription *)

\* the ids that ctrl.ID() gives to the ptx_subscribe requests
SubIds == {"s1", "s2"}

\* acksNacks: make(chan *rpcAckNack, 1)
AcksNacksBuffer == 1

NoDelivery == [ran |-> FALSE]

\* es.subLock is free
NoLock == [closing |-> "none"]

\* the id has not been given to a request yet
NoSubscription ==
    [started |-> FALSE, rrc |-> "nil", acksNacks |-> <<>>, closed |-> 0,
     pc |-> "idle", batch |-> 1, calls |-> 0, closeCalls |-> 0]

\* &rpcAckNack{ack: ...}; answers is history: the number of deliveries made to
\* the client when it sent the ack or nack
rpcAckNack(ack, sub) == [ack |-> ack, answers |-> sub.calls]

\* the state not touched by the event streams
UnchangedBySubscriptions ==
    UNCHANGED <<engineVars, wakeVars, cacheVars, fuelVars, ledgerVars, msgVars, stageVars>>

\* HandleStart for the request that ctrl.ID() names id: with invalid parameters an
\* error response and nothing else; otherwise the subscription goes into the map
\* and the receipt receiver is added, which may fail
HandleStart(id, validParams, addFails) ==
    /\ subLock = NoLock
    /\ ~subscriptions[id].started
    /\ IF ~validParams
       THEN /\ subscriptions' = [subscriptions EXCEPT ![id].started = TRUE]
            /\ receiptSubs' = receiptSubs
       ELSE /\ subscriptions' =
                  [subscriptions EXCEPT ![id].started = TRUE,
                                        ![id].rrc = IF addFails THEN "nil" ELSE "open"]
            /\ receiptSubs' = receiptSubs \cup {id}
    /\ lastDelivery' = NoDelivery
    /\ UNCHANGED subLock
    /\ UnchangedBySubscriptions

\* select { case sub.acksNacks <- &rpcAckNack{...}: default: }
SendAckNack(sub, ack) ==
    IF Len(sub.acksNacks) < AcksNacksBuffer
    THEN [sub EXCEPT !.acksNacks = Append(@, rpcAckNack(ack, sub))]
    ELSE sub

\* HandleLifecycle for ptx_ack and ptx_nack: the client may send them at any time;
\* getSubscription takes the lock
HandleLifecycleAckNack(id, ack) ==
    /\ subLock = NoLock
    /\ subscriptions' =
           IF id \in receiptSubs
           THEN [subscriptions EXCEPT ![id] = SendAckNack(@, ack)]
           ELSE subscriptions
    /\ lastDelivery' = NoDelivery
    /\ UNCHANGED <<receiptSubs, subLock>>
    /\ UnchangedBySubscriptions

\* cleanupLocked of each subscription in ids, but for the delete from the map:
\* sub.rrc.Close() if there is a receiver, and close(sub.closed)
cleanupLocked(subs, ids) ==
    [id \in SubIds |->
        IF id \in ids
        THEN [subs[id] EXCEPT !.rrc = IF @ # "nil" THEN "closed" ELSE @,
                              !.closed = @ + 1]
        ELSE subs[id]]

\* delete(sub.es.receiptSubs, sub.ctrl.ID()) and, if there is a receiver, the call
\* of sub.rrc.Close(); no delivery to the receiver starts from then on
CloseCalled(subs, id) ==
    [subs EXCEPT ![id].rrc = IF @ # "nil" THEN "closing" ELSE @,
                 \* history: the calls of sub.rrc.Close()
                 ![id].closeCalls = IF subs[id].rrc # "nil" THEN @ + 1 ELSE @]

\* cleanupLocked is entered for a subscription of ids, with the lock held: it is
\* deleted from the map and, if it has a receiver, sub.rrc.Close() is called,
\* which returns at once or only when no delivery to the receiver is in progress
CleanupBegins(ids, caller) ==
    /\ subLock = NoLock
    /\ IF ids \cap receiptSubs = {}
       THEN UNCHANGED <<receiptSubs, subLock, subscriptions>>
       ELSE \E id \in ids \cap receiptSubs : \E closeWaits \in BOOLEAN :
               /\ receiptSubs' = receiptSubs \ {id}
               /\ subscriptions' = CloseCalled(subscriptions, id)
               /\ subLock' = [closing |-> id, todo |-> (ids \cap receiptSubs) \ {id},
                              closeWaits |-> closeWaits, caller |-> caller]

\* a cleanup that works on the subscription its caller got from getSubscription
\* before, without looking it up again under the lock
cleanupSubscription_StalePointer(id) ==
    /\ subLock = NoLock
    /\ IF ~subscriptions[id].started
       THEN UNCHANGED <<receiptSubs, subLock, subscriptions>>
       ELSE \E closeWaits \in BOOLEAN :
               /\ receiptSubs' = receiptSubs \ {id}
               /\ subscriptions' = CloseCalled(subscriptions, id)
               /\ subLock' = [closing |-> id, todo |-> {}, closeWaits |-> closeWaits,
                              caller |-> "cleanupSubscription"]

\* cleanupSubscription(subID): under the lock, cleanupLocked if the map has it
cleanupSubscription(id) == CleanupBegins({id}, "cleanupSubscription")

\* HandleLifecycle for ptx_unsubscribe
HandleLifecycleUnsubscribe(id) ==
    /\ cleanupSubscription(id)
    /\ lastDelivery' = NoDelivery
    /\ UnchangedBySubscriptions

\* ConnectionClosed
ConnectionClosed(id) ==
    /\ subscriptions[id].started
    /\ cleanupSubscription(id)
    /\ lastDelivery' = NoDelivery
    /\ UnchangedBySubscriptions

\* stop: cleanupLocked for every subscription of the map
stop ==
    /\ CleanupBegins(receiptSubs, "stop")
    /\ lastDelivery' = NoDelivery
    /\ UnchangedBySubscriptions

\* sub.rrc.Close() can return
CloseReturns(sub, closeWaits) == closeWaits => sub.pc # "waiting"

\* the rest of cleanupLocked: sub.rrc.Close() has returned, close(sub.closed); then
\* the next subscription of stop's loop, or the unlock
CleanupLockedCloses ==
    /\ subLock # NoLock
    /\ LET id == subLock.closing
       IN /\ subscriptions[id].rrc # "nil" =>
                 CloseReturns(subscriptions[id], subLock.closeWaits)
          /\ IF subLock.todo = {}
             THEN /\ subscriptions' = cleanupLocked(subscriptions, {id})
                  /\ subLock' = NoLock
                  /\ UNCHANGED receiptSubs
             ELSE \E next \in subLock.todo : \E closeWaits \in BOOLEAN :
                     /\ subscriptions' =
                            CloseCalled(cleanupLocked(subscriptions, {id}), next)
                     /\ receiptSubs' = receiptSubs \ {next}
                     /\ subLock' = [closing |-> next, todo |-> subLock.todo \ {next},
                                    closeWaits |-> closeWaits, caller |-> subLock.caller]
    /\ lastDelivery' = NoDelivery
    /\ UnchangedBySubscriptions

\* the receipt listener calls its receiver with one batch at a time, while the
\* receiver is not closed
ReceiverMayDeliver(sub) ==
    /\ sub.rrc = "open"
    /\ sub.pc = "idle"
    /\ sub.calls < MaxBatches

\* DeliverReceiptBatch, up to its select: sub.ctrl.Send("ptx_receiptBatch", ...)
DeliverReceiptBatchSends(id) ==
    /\ ReceiverMayDeliver(subscriptions[id])
    /\ subscriptions' = [subscriptions EXCEPT ![id].pc = "waiting", ![id].calls = @ + 1]
    /\ lastDelivery' = NoDelivery
    /\ UNCHANGED <<receiptSubs, subLock>>
    /\ UnchangedBySubscriptions

\* a select with a default case, which does not wait
ReadyCases_WithDefault(sub) ==
    {"acksNacks" : ready \in {r \in {TRUE} : Len(sub.acksNacks) > 0}}
        \cup {"closed" : ready \in {r \in {TRUE} : sub.closed > 0}}
        \cup {"default"}

\* the cases of DeliverReceiptBatch's select that can be taken
ReadyCases(sub) ==
    {"acksNacks" : ready \in {r \in {TRUE} : Len(sub.acksNacks) > 0}}
        \cup {"closed" : ready \in {r \in {TRUE} : sub.closed > 0}}

\* what DeliverReceiptBatch returns from a case of its select: nil on an ack,
\* the nack error on a nack, the closed error on the closed channel
DeliverReceiptBatchResult(sub, case) ==
    IF case = "acksNacks"
    THEN IF Head(sub.acksNacks).ack THEN "nil" ELSE "MsgTxMgrJSONRPCSubscriptionNack"
    ELSE IF case = "closed" THEN "MsgTxMgrJSONRPCSubscriptionClosed"
    ELSE "nil"

\* DeliverReceiptBatch, from its select to its return; the receipt listener goes
\* on to the next batch after a nil
DeliverReceiptBatchReturns(id) ==
    /\ subscriptions[id].pc = "waiting"
    /\ \E case \in ReadyCases(subscriptions[id]) :
          LET sub == subscriptions[id]
              result == DeliverReceiptBatchResult(sub, case)
          IN /\ subscriptions' =
                    [subscriptions EXCEPT
                        ![id].pc = "idle",
                        ![id].acksNacks = IF case = "acksNacks" THEN Tail(@) ELSE @,
                        ![id].batch = IF result = "nil" THEN @ + 1 ELSE @]
             /\ lastDelivery' =
                    [ran |-> TRUE, id |-> id, batch |-> sub.batch, call |-> sub.calls,
                     case |-> case, result |-> result,
                     answers |-> IF case = "acksNacks" THEN Head(sub.acksNacks).answers
                                 ELSE 0]
    /\ UNCHANGED <<receiptSubs, subLock>>
    /\ UnchangedBySubscriptions

InitSubscriptions ==
    /\ receiptSubs = {}
    /\ subscriptions = [id \in SubIds |-> NoSubscription]
    /\ subLock = NoLock
    /\ lastDelivery = NoDelivery

----------------------------------------------------------------------------
(* The privacy group messages: groupManager.SendMessage and ReceiveMessages *)

\* the DB transactions the callers pass as dbTX
DBTXs == {"t1", "t2"}

\* a DB transaction that has not begun
NoDBTX ==
    [state |-> "none", rows |-> {}, reliable |-> [m \in {} |-> 0], postCommit |-> <<>>]

\* the points where SendMessage can fail, and "none"
SendMessageErrors ==
    {"GetGroupByID", "GroupNotFound", "Create", "validateMembers", "SendReliable", "none"}

\* the node of a member of a group on another node
NodeOf(identity) == IF identity = "c@node3" THEN "node3" ELSE "node2"

\* the remote members of the groups messages are sent to: none, two on one node,
\* two on two nodes
RemoteMemberSets == {{}, {"a@node2", "b@node2"}, {"a@node2", "c@node3"}}

\* no SendMessage has just returned
NoSendMessage == [ran |-> FALSE]

\* the state not touched by the messages
UnchangedByMessages ==
    UNCHANGED <<engineVars, wakeVars, cacheVars, fuelVars, ledgerVars, subVars, stageVars>>

\* the caller begins a DB transaction
BeginDBTX(t) ==
    /\ dbTXs[t].state = "none"
    /\ dbTXs' = [dbTXs EXCEPT ![t].state = "open"]
    /\ UNCHANGED <<persistedMessages, nextLocalSeq, notifiedMessages>>
    /\ lastSendMessage' = NoSendMessage
    /\ UnchangedByMessages

\* dbTX.DB().WithContext(ctx).Create(...): the rows are in the transaction
Create(tx, rows) == [tx EXCEPT !.rows = @ \cup rows]

\* a call of notifyNewMessages right away, with no hook
AddPostCommitNotify_AtOnce(tx, notified, rows) ==
    [tx |-> tx, notified |-> notified \cup rows]

\* dbTX.AddPostCommit(func(txCtx) { gm.notifyNewMessages(...) })
AddPostCommitNotify(tx, notified, rows) ==
    [tx |-> [tx EXCEPT !.postCommit = Append(@, rows)], notified |-> notified]

\* gm.validateMembers(ctx, pg.Members): the remote members by node
validateMembers(members) ==
    [node \in {NodeOf(i) : i \in members} |-> {i \in members : NodeOf(i) = node}]

\* one reliable message for every identity of every remote node
ReliableMessages_PerIdentity(remoteMembers, msgID) ==
    [m \in {[node |-> node, id |-> msgID] : node \in DOMAIN remoteMembers} |->
        Cardinality(remoteMembers[m.node])]

\* the loop over remoteMembers: one ReliableMessage for each node, as a bag
ReliableMessages(remoteMembers, msgID) ==
    [m \in {[node |-> node, id |-> msgID] : node \in DOMAIN remoteMembers} |-> 1]

\* gm.transportManager.SendReliable(ctx, dbTX, msgs...): the messages are queued
\* in the transaction
SendReliable(tx, msgs) ==
    LET queued == tx.reliable
    IN [tx EXCEPT !.reliable =
           [m \in DOMAIN queued \cup DOMAIN msgs |->
               (IF m \in DOMAIN queued THEN queued[m] ELSE 0)
                   + (IF m \in DOMAIN msgs THEN msgs[m] ELSE 0)]]

\* SendMessage(ctx, dbTX, msg) for a group with the given remote members (they
\* matter only once validateMembers has returned them): an error before or in
\* the insert leaves nothing; an error after the insert leaves the row in the
\* transaction and no hook; SendReliable is called only with a message to send,
\* and a failed SendReliable is taken to queue nothing
SendMessage(t, error, members) ==
    /\ dbTXs[t].state = "open"
    /\ nextLocalSeq <= MaxMessages
    /\ error = "SendReliable" => members # {}
    /\ error \in {"GetGroupByID", "GroupNotFound", "Create", "validateMembers"} =>
          members = {}
    /\ IF error \in {"GetGroupByID", "GroupNotFound", "Create"}
       THEN /\ UNCHANGED <<dbTXs, nextLocalSeq, notifiedMessages>>
            /\ lastSendMessage' = [ran |-> TRUE, t |-> t, error |-> error,
                                   members |-> members, msgID |-> 0, returned |-> 0]
       ELSE LET pMsg == nextLocalSeq
                inserted == Create(dbTXs[t], {pMsg})
                msgs == ReliableMessages(validateMembers(members), pMsg)
                sent == IF DOMAIN msgs # {} THEN SendReliable(inserted, msgs)
                        ELSE inserted
                hooked == AddPostCommitNotify(sent, notifiedMessages, {pMsg})
            IN /\ nextLocalSeq' = nextLocalSeq + 1
               /\ lastSendMessage' =
                      [ran |-> TRUE, t |-> t, error |-> error, members |-> members,
                       msgID |-> pMsg, returned |-> IF error = "none" THEN pMsg ELSE 0]
               /\ IF error = "none"
                  THEN /\ dbTXs' = [dbTXs EXCEPT ![t] = hooked.tx]
                       /\ notifiedMessages' = hooked.notified
                  ELSE /\ dbTXs' = [dbTXs EXCEPT ![t] = inserted]
                       /\ UNCHANGED notifiedMessages
    /\ UNCHANGED persistedMessages
    /\ UnchangedByMessages

\* ReceiveMessages(ctx, dbTX, node, msgs...)
ReceiveMessages(t, count, createFails) ==
    /\ dbTXs[t].state = "open"
    /\ nextLocalSeq + count - 1 <= MaxMessages
    /\ IF createFails
       THEN UNCHANGED <<dbTXs, nextLocalSeq, notifiedMessages>>
       ELSE LET pMsgs == nextLocalSeq..(nextLocalSeq + count - 1)
                hooked == AddPostCommitNotify(Create(dbTXs[t], pMsgs), notifiedMessages,
                                              pMsgs)
            IN /\ nextLocalSeq' = nextLocalSeq + count
               /\ dbTXs' = [dbTXs EXCEPT ![t] = hooked.tx]
               /\ notifiedMessages' = hooked.notified
    /\ UNCHANGED persistedMessages
    /\ lastSendMessage' = NoSendMessage
    /\ UnchangedByMessages

\* the caller's transaction ends: with a commit its rows are durable and its
\* post-commit hooks are to run; otherwise it is rolled back and they are dropped
EndDBTX(t, commits) ==
    /\ dbTXs[t].state = "open"
    /\ IF commits
       THEN /\ dbTXs' = [dbTXs EXCEPT ![t].state = "committed"]
            /\ persistedMessages' = persistedMessages \cup dbTXs[t].rows
       ELSE /\ dbTXs' = [dbTXs EXCEPT ![t].state = "rolledBack", ![t].postCommit = <<>>]
            /\ UNCHANGED persistedMessages
    /\ UNCHANGED <<nextLocalSeq, notifiedMessages>>
    /\ lastSendMessage' = NoSendMessage
    /\ UnchangedByMessages

\* the next post-commit hook of a committed transaction runs: notifyNewMessages
RunPostCommit(t) ==
    /\ dbTXs[t].state = "committed"
    /\ dbTXs[t].postCommit # <<>>
    /\ notifiedMessages' = notifiedMessages \cup Head(dbTXs[t].postCommit)
    /\ dbTXs' = [dbTXs EXCEPT ![t].postCommit = Tail(@)]
    /\ UNCHANGED <<persistedMessages, nextLocalSeq>>
    /\ lastSendMessage' = NoSendMessage
    /\ UnchangedByMessages

InitMessages ==
    /\ dbTXs = [t \in DBTXs |-> NoDBTX]
    /\ persistedMessages = {}
    /\ nextLocalSeq = 1
    /\ notifiedMessages = {}
    /\ lastSendMessage = NoSendMessage

----------------------------------------------------------------------------
(* The stage controller of privatetxnmgr with its test stage processor *)

testStage == "test"
\* the stage names passed to the controller
StageNames == {testStage, "unknown"}
\* the stages of the events handed in
EventStages == {testStage, "other"}
ActionMessages == {"complete", "continue"}
ContractAddresses == {"0x000000error", "0x000complete", "0x0000000000"}

NextStepWait == "NextStepWait"
NextStepNewStage == "NextStepNewStage"

StageEvent(stage, message) == [Stage |-> stage, Data |-> message]

\* the batches of events handed to ProcessEventsForStage
StageEventBatches ==
    UNION {[1..n -> {StageEvent(stage, message) :
                        stage \in EventStages, message \in ActionMessages}] :
           n \in 0..MaxEvents}

\* the stage processors the test controller is built with
stageProcessors == {testStage}

\* a processor that takes the events of every stage for its own
ProcessStageEvent_EveryStage(result, se) ==
    IF se.Data = "complete"
    THEN [result EXCEPT !.nextStep = NextStepNewStage]
    ELSE [result EXCEPT !.txUpdates = "update"]

\* one pass of the loop of testStageProcessor.ProcessEvents
ProcessStageEvent(result, se) ==
    IF se.Stage = testStage
    THEN IF se.Data = "complete"
         THEN [result EXCEPT !.nextStep = NextStepNewStage]
         ELSE [result EXCEPT !.txUpdates = "update"]
    ELSE [result EXCEPT !.unprocessedStageEvents = Append(@, se)]

RECURSIVE ProcessEventsFrom(_, _)
ProcessEventsFrom(result, stageEvents) ==
    IF stageEvents = <<>> THEN result
    ELSE ProcessEventsFrom(ProcessStageEvent(result, Head(stageEvents)), Tail(stageEvents))

\* testStageProcessor.ProcessEvents; txUpdates is "nil" or "update", an update
\* with a fresh sequence id
ProcessEvents(stageEvents) ==
    ProcessEventsFrom([unprocessedStageEvents |-> <<>>, txUpdates |-> "nil",
                       nextStep |-> NextStepWait],
                      stageEvents)

\* testStageProcessor.PerformAction
PerformAction(contract) ==
    IF contract = "0x000000error" THEN [actionOutput |-> "nil", actionTriggerErr |-> "pop"]
    ELSE IF contract = "0x000complete"
    THEN [actionOutput |-> "complete", actionTriggerErr |-> "nil"]
    ELSE [actionOutput |-> "continue", actionTriggerErr |-> "nil"]

NoStageCall == [op |-> "none"]

UnchangedByStages ==
    UNCHANGED <<engineVars, wakeVars, cacheVars, fuelVars, ledgerVars, subVars, msgVars>>

\* PaladinStageController.PerformActionForStage: panics when no processor is
\* registered for the stage
PerformActionForStage(stage, contract) ==
    /\ lastStageCall' =
           IF stage \in stageProcessors
           THEN [op |-> "PerformActionForStage", stage |-> stage, contract |-> contract,
                 panicked |-> FALSE, result |-> PerformAction(contract)]
           ELSE [op |-> "PerformActionForStage", stage |-> stage, contract |-> contract,
                 panicked |-> TRUE]
    /\ UnchangedByStages

\* PaladinStageController.ProcessEventsForStage: panics when no processor is
\* registered for the stage, and returns what the stage's processor returns
ProcessEventsForStage(stage, stageEvents) ==
    /\ lastStageCall' =
           IF stage \in stageProcessors
           THEN [op |-> "ProcessEventsForStage", stage |-> stage,
                 stageEvents |-> stageEvents, panicked |-> FALSE,
                 result |-> ProcessEvents(stageEvents)]
           ELSE [op |-> "ProcessEventsForStage", stage |-> stage,
                 stageEvents |-> stageEvents, panicked |-> TRUE]
    /\ UnchangedByStages

InitStages == lastStageCall = NoStageCall

----------------------------------------------------------------------------
(* The specifications *)

Init ==
    /\ txStore = <<>>
    /\ InitEngine /\ InitWake /\ InitCache /\ InitFuel /\ InitLedger /\ InitSubscriptions
    /\ InitMessages /\ InitStages

\* the engine's polls of the orchestrator pool, one wake-up and poll per step
Next ==
    /\ \/ EngineTick
       \/ AdvanceTime
       \/ \E a \in Signers : SubmitTransaction(a)
       \/ \E a \in Signers : OrchestratorChangesState(a)
       \/ \E a \in Signers : OrchestratorStops(a)
       \/ \E a \in Signers : OrchestratorFails(a)
    /\ UNCHANGED <<wakeVars, cacheVars, fuelVars, ledgerVars, subVars, msgVars, stageVars>>

Spec == Init /\ [][Next]_vars

\* the same engine with the clock running over the longer horizon
NextLong ==
    /\ \/ EngineTick
       \/ AdvanceTimeLong
       \/ \E a \in Signers : SubmitTransaction(a)
       \/ \E a \in Signers : OrchestratorChangesState(a)
       \/ \E a \in Signers : OrchestratorStops(a)
       \/ \E a \in Signers : OrchestratorFails(a)
    /\ UNCHANGED <<wakeVars, cacheVars, fuelVars, ledgerVars, subVars, msgVars, stageVars>>

SpecLong == Init /\ [][NextLong]_vars

\* the engine loop, its wake-up channels and the callers that signal it
NextWake ==
    /\ \/ CallerMarksStale
       \/ TickerFires
       \/ CancelContext
       \/ SelectTicker
       \/ SelectStale
       \/ SelectDone
       \/ EnginePoll
    /\ UNCHANGED <<cacheVars, fuelVars, ledgerVars, subVars, msgVars, stageVars>>

SpecWake == Init /\ [][NextWake]_vars

\* the engine with a pool of one orchestrator, a live context and time that passes
\* without end
UnchangedByEngine == UNCHANGED <<wakeVars, cacheVars, fuelVars, ledgerVars, subVars, msgVars, stageVars>>

InitOneSlot == Init /\ maxInFlightOrchestrators = 1

NextOneSlot ==
    /\ \/ EngineTickLive
       \/ TimePasses
       \/ \E a \in Signers : SubmitTransaction(a)
       \/ \E a \in Signers : OrchestratorChangesState(a)
       \/ \E a \in Signers : OrchestratorStops(a)
    /\ UnchangedByEngine

\* the same under fair scheduling: the engine's ticker keeps ticking, an
\* orchestrator that was asked to stop stops, and time passes
SpecOneSlot ==
    /\ InitOneSlot
    /\ [][NextOneSlot]_vars
    /\ WF_vars(EngineTickLive /\ UnchangedByEngine)
    /\ WF_vars(TimePasses /\ UnchangedByEngine)
    /\ \A a \in Signers : WF_vars(OrchestratorStops(a) /\ UnchangedByEngine)

\* the same under the scheduling of the Go runtime: a poll that has started returns
\* (its retry loop ends on cancellation), and the select of engineLoop picks among
\* its ready cases at random, so the case <-ctx.Done(), ready at every select
\* after the cancellation, is taken in the end
SpecWakeFair ==
    /\ SpecWake
    /\ WF_vars(EnginePoll /\ UNCHANGED <<cacheVars, fuelVars, ledgerVars, subVars, msgVars, stageVars>>)
    /\ SF_vars(SelectDone /\ UNCHANGED <<cacheVars, fuelVars, ledgerVars, subVars, msgVars, stageVars>>)

\* engineLoop as a goroutine that is scheduled: blocked in its select with a case
\* ready, it takes one
EngineSelect == SelectTicker \/ SelectStale \/ SelectDone

SpecWakeLive ==
    /\ SpecWakeFair
    /\ WF_vars(EngineSelect /\ UNCHANGED <<cacheVars, fuelVars, ledgerVars, subVars, msgVars, stageVars>>)

\* concurrent callers of the completed-nonce cache
InitCacheCallers ==
    /\ txStore = CacheStore
    /\ InitEngine /\ InitWake /\ InitCache /\ InitFuel /\ InitLedger /\ InitSubscriptions
    /\ InitMessages /\ InitStages

NextCache ==
    /\ \/ \E c \in Callers : \E tx \in TxOf(txStore) : BeginCheckTransactionCompleted(c, tx)
       \/ \E c \in Callers : CheckLookup(c)
       \/ \E c \in Callers : \E storeFails \in BOOLEAN : CheckQuery(c, storeFails)
       \/ \E c \in Callers : \E tx \in TxOf(txStore) : BeginUpdateCompletedTxNonce(c, tx)
       \/ \E c \in Callers : UpdateLock(c)
       \/ \E c \in Callers : UpdateAndReturn(c)
       \/ \E i \in 1..Len(txStore) :
             \E status \in {PubTxStatusSucceeded, PubTxStatusFailed} :
                 TransactionCompletes(i, status)
    /\ UNCHANGED <<fuelVars, ledgerVars, subVars, msgVars, stageVars>>

SpecCache == InitCacheCallers /\ [][NextCache]_vars

\* fueling requests, with the transactions of the store completing meanwhile
NextFuel ==
    /\ \/ \E c \in Callers : \E destination \in Destinations : \E storeFails \in BOOLEAN :
             RequestFuelLookup(c, destination, storeFails)
       \/ \E c \in Callers : \E storeFails \in BOOLEAN : RequestFuelDecide(c, storeFails)
       \/ \E kind \in OtherTransactions : SubmitOtherTransaction(kind[1], kind[2], kind[3])
       \/ \E i \in 1..Len(txStore) :
             \E status \in {PubTxStatusSucceeded, PubTxStatusFailed} :
                 /\ InNonceOrder(i)
                 /\ TransactionCompletes(i, status)
                 /\ lastFueling' = NoCall
       \/ \E i \in 1..Len(txStore) : OrchestratorRecordsCompletion(i)
    /\ UNCHANGED <<ledgerVars, subVars, msgVars, stageVars>>

SpecFuel == Init /\ [][NextFuel]_vars

\* the transactions of a signer on their way through the base ledger
NextLedger ==
    \/ \E from \in LedgerSigners : EnqueueTransaction(from)
    \/ \E id \in 1..Len(txStore) : OrchestratorSubmits(id)
    \/ \E id \in 1..Len(txStore) : OrchestratorRebroadcasts(id)
    \/ \E id \in 1..Len(txStore) : OrchestratorSuspends(id)
    \/ \E id \in 1..Len(txStore) : OrchestratorResumes(id)
    \/ \E id \in 1..Len(txStore) : \E ok \in BOOLEAN : LedgerMines(id, ok)
    \/ \E id \in 1..Len(txStore) : TrackerProcessesReceipt(id)
    \/ \E b \in 1..Len(chain) : Reorg(b)

InitLedgerSigners == Init /\ \A size \in PoolSizes : maxInFlightOrchestrators <= size

SpecLedger == InitLedgerSigners /\ [][NextLedger]_vars

\* the receipt subscriptions, their clients and the receipt listener
NextSubscriptions ==
    \/ \E id \in SubIds : \E validParams, addFails \in BOOLEAN :
          HandleStart(id, validParams, addFails)
    \/ \E id \in SubIds : \E ack \in BOOLEAN : HandleLifecycleAckNack(id, ack)
    \/ \E id \in SubIds : HandleLifecycleUnsubscribe(id)
    \/ \E id \in SubIds : ConnectionClosed(id)
    \/ stop
    \/ CleanupLockedCloses
    \/ \E id \in SubIds : DeliverReceiptBatchSends(id)
    \/ \E id \in SubIds : DeliverReceiptBatchReturns(id)

SpecSubscriptions == InitLedgerSigners /\ [][NextSubscriptions]_vars

\* the callers of the group manager and their DB transactions
NextMessages ==
    \/ \E t \in DBTXs : BeginDBTX(t)
    \/ \E t \in DBTXs : \E error \in SendMessageErrors :
          \E members \in RemoteMemberSets : SendMessage(t, error, members)
    \/ \E t \in DBTXs : \E count \in 1..2 : \E createFails \in BOOLEAN :
          ReceiveMessages(t, count, createFails)
    \/ \E t \in DBTXs : \E commits \in BOOLEAN : EndDBTX(t, commits)
    \/ \E t \in DBTXs : RunPostCommit(t)

SpecMessages == InitLedgerSigners /\ [][NextMessages]_vars

\* the calls of the stage controller of the private transaction manager
NextStages ==
    \/ \E stage \in StageNames : \E contract \in ContractAddresses :
          PerformActionForStage(stage, contract)
    \/ \E stage \in StageNames : \E stageEvents \in StageEventBatches :
          ProcessEventsForStage(stage, stageEvents)

SpecStages == InitLedgerSigners /\ [][NextStages]_vars

----------------------------------------------------------------------------
(* Properties of the engine's poll *)

PoolSize == Cardinality(DOMAIN InFlightOrchestrators)

\* the signers with a Pending transaction in the store
PendingSigners == {txStore[i].from : i \in {j \in 1..Len(txStore) :
                                               txStore[j].status = PubTxStatusPending}}

\* C1: after every poll (and so in every state, the poll being the only operation
\* that adds to the map) the orchestrator map holds at most
\* maxInFlightOrchestrators orchestrators.
C1_PoolBound == PoolSize <= maxInFlightOrchestrators

\* a poll has filled the pool to its bound although more signers were pending
C1_Witness ==
    /\ lastPoll.ran
    /\ lastPoll.started # <<>>
    /\ PoolSize = maxInFlightOrchestrators
    /\ PendingSigners \ DOMAIN InFlightOrchestrators # {}

\* C2: at most one started and not yet stopped orchestrator exists per signing
\* address, and it is the one in the map; a poll starts at most one orchestrator
\* per signer, and only for a signer with no entry among those carried over
\* (any earlier orchestrator of it was observed Stopped and dropped).
C2_OneOrchestratorPerSigner ==
    /\ \A a \in Signers :
          liveOrchestrators[a] =
              IF /\ a \in DOMAIN InFlightOrchestrators
                 /\ InFlightOrchestrators[a].state # OrchestratorStateStopped
              THEN 1 ELSE 0
    /\ lastPoll.ran =>
          \A a \in Signers :
              /\ CountIn(lastPoll.started, a) <= 1
              /\ CountIn(lastPoll.started, a) = 1 =>
                    /\ a \notin lastPoll.survivors
                    /\ CountIn(lastPoll.rows, a) >= 1

\* a poll got two rows of one signer and started one orchestrator for it
C2_Witness ==
    /\ lastPoll.ran
    /\ \E a \in Signers :
          /\ CountIn(lastPoll.rows, a) >= 2
          /\ CountIn(lastPoll.started, a) = 1
          /\ liveOrchestrators[a] = 1

\* C3: in a poll that finds the pool full, every orchestrator carried over that has
\* existed for longer than maxOverloadProcessTime has its stop requested, and its
\* signer is in the pause table until at least maxOverloadProcessTime later.
C3_FairnessEviction ==
    (lastPoll.ran /\ lastPoll.branch = "full") =>
        \A a \in lastPoll.survivors :
            now - InFlightOrchestrators[a].orchestratorBirthTime > maxOverloadProcessTime =>
                /\ InFlightOrchestrators[a].stopRequested
                /\ a \in DOMAIN SigningAddressesPausedUntil
                /\ SigningAddressesPausedUntil[a] - now >= maxOverloadProcessTime

\* a full pool, another signer pending, and an orchestrator evicted and paused
C3_Witness ==
    /\ lastPoll.ran
    /\ lastPoll.branch = "full"
    /\ PendingSigners \ DOMAIN InFlightOrchestrators # {}
    /\ \E a \in lastPoll.survivors :
          /\ now - InFlightOrchestrators[a].orchestratorBirthTime > maxOverloadProcessTime
          /\ InFlightOrchestrators[a].stopRequested
          /\ SigningAddressesPausedUntil[a] = now + maxOverloadProcessTime

----------------------------------------------------------------------------
(* Properties of the wake-up channel *)

\* the polls that the calls of the window have caused: done, running, or signalled
\* by the signal waiting in the channel
ExtraPolls == staleWindow.polls + StalePollRunning + InFlightOrchestratorStale

\* C5 as stated: the calls made between two ticker ticks cause one extra poll, and
\* no more than one. It fails: a call made after the engine loop has taken the
\* signal of an earlier call, for one while the poll runs, puts a new signal in the
\* channel and causes a further poll.
C5_ExactlyOneExtraPoll ==
    (staleWindow.carried = 0 /\ staleWindow.calls >= 1) =>
        /\ ExtraPolls >= 1
        /\ staleWindow.polls <= 1

\* C5 as amended: the N calls made between two ticker ticks cause at least one and
\* at most N extra polls; exactly the calls that found a signal waiting in the
\* channel are coalesced into the poll that signal causes.
C5_WakeCoalescing ==
    /\ ExtraPolls = staleWindow.calls - staleWindow.dropped + staleWindow.carried
    /\ (staleWindow.carried = 0 /\ staleWindow.calls >= 1) =>
          /\ ExtraPolls >= 1
          /\ ExtraPolls <= staleWindow.calls

\* three calls since the last tick, one of them coalesced, two extra polls done
C5_Witness ==
    /\ staleWindow.carried = 0
    /\ staleWindow.calls = 3
    /\ staleWindow.dropped = 1
    /\ staleWindow.polls = 2

\* C6: MarkInFlightOrchestratorsStale can always run to its end (it never waits for
\* the channel), leaves one signal in the channel whether the channel was empty or
\* not, and the channel never holds more than one signal.
C6_MarkNeverBlocks ==
    /\ InFlightOrchestratorStale <= StaleChannelBuffer
    /\ ENABLED MarkInFlightOrchestratorsStale
    /\ lastMark.ran =>
          /\ lastMark.before = 0 => InFlightOrchestratorStale = 1
          /\ lastMark.before > 0 => InFlightOrchestratorStale = lastMark.before

\* a call has returned that found a signal waiting in the channel
C6_Witness ==
    /\ lastMark.ran
    /\ lastMark.before = StaleChannelBuffer
    /\ InFlightOrchestratorStale = StaleChannelBuffer

\* one step of the engine loop and its surroundings, as C17 allows it: a poll starts
\* only from the select and takes exactly one tick or one signal; a poll runs to
\* its end only in a step of the one poll that was started, which takes the loop
\* back to the select; once the loop has exited it stays so, no poll runs and no
\* tick is delivered (the ticker is stopped)
EngineLoopStep ==
    /\ (enginePC' = "poll" /\ enginePC # "poll") =>
          /\ enginePC = "select"
          /\ tickerC' + InFlightOrchestratorStale' = tickerC + InFlightOrchestratorStale - 1
    /\ lastPoll'.ran => (enginePC = "poll" /\ enginePC' = "select")
    /\ enginePC = "exited" =>
          /\ enginePC' = "exited"
          /\ ~lastPoll'.ran
          /\ tickerC' = tickerC
    /\ (enginePC' = "exited" /\ enginePC # "exited") => (enginePC = "select" /\ ctxDone)

\* C17: the engine loop runs one poll per wake-up (each poll starts by taking one
\* tick or one stale signal, and the loop is in no more than one poll at a time),
\* the loop has exited exactly when engineLoopDone is closed, after the exit the
\* ticker delivers nothing and no poll starts, and a cancelled engine context
\* leads to the loop's exit with engineLoopDone closed.
C17_EngineLoopLifecycle ==
    /\ [][EngineLoopStep]_vars
    /\ [](engineLoopDone <=> enginePC = "exited")
    /\ [](engineLoopDone => ctxDone)
    /\ (ctxDone ~> (engineLoopDone /\ enginePC = "exited"))

\* the loop has exited after a poll woken by a stale signal and with a tick and a
\* signal still waiting in the channels
C17_Witness ==
    /\ engineLoopDone
    /\ staleWindow.polls >= 1
    /\ tickerC = 1
    /\ InFlightOrchestratorStale = 1

----------------------------------------------------------------------------
(* Properties of the completed-nonce cache *)

HighestNonce(nonces) == CHOOSE n \in nonces : \A k \in nonces : k <= n

CacheStep ==
    /\ \A a \in DOMAIN completedTxNoncePerAddress :
          /\ a \in DOMAIN completedTxNoncePerAddress'
          /\ completedTxNoncePerAddress'[a] >= completedTxNoncePerAddress[a]
    /\ completedTxNoncePerAddress' # completedTxNoncePerAddress =>
          /\ lastUpdate'.ran
          /\ lastUpdate'.tx.status \in {PubTxStatusSucceeded, PubTxStatusFailed}
          /\ \/ lastUpdate'.tx.from \notin DOMAIN completedTxNoncePerAddress
             \/ completedTxNoncePerAddress[lastUpdate'.tx.from] < lastUpdate'.tx.nonce
          /\ completedTxNoncePerAddress' =
                 MapPut(completedTxNoncePerAddress, lastUpdate'.tx.from, lastUpdate'.tx.nonce)
    /\ lastUpdate'.ran =>
          (lastUpdate'.updated <=> completedTxNoncePerAddress' # completedTxNoncePerAddress)

\* C7: in every step an entry of the cache stays present and does not decrease; the
\* cache changes only in an updateCompletedTxNonce of a Succeeded or Failed
\* transaction whose nonce is above the entry (or whose signer has no entry), the new
\* entry being that nonce; and updateCompletedTxNonce returns true exactly when it
\* changed the cache.
C7_CacheMonotonic == [][CacheStep]_vars

\* an updateCompletedTxNonce of a completed transaction below the entry wrote nothing
C7_Witness ==
    /\ lastUpdate.ran
    /\ ~lastUpdate.updated
    /\ lastUpdate.tx.status \in {PubTxStatusSucceeded, PubTxStatusFailed}
    /\ lastUpdate.tx.from \in DOMAIN completedTxNoncePerAddress
    /\ completedTxNoncePerAddress[lastUpdate.tx.from] > lastUpdate.tx.nonce

\* C8: no caller is at the map lookup of CheckTransactionCompleted while another
\* caller holds the mutex inside updateCompletedTxNonce, where it writes the map;
\* and whoever is at a read or a write of the map holds the mutex.
C8_CacheMutexGuarded ==
    \A c \in Callers :
        /\ callers[c].pc = "CTC_lookup" => ~WriterActive(c)
        /\ callers[c].pc \in {"CTC_lookup", "UCN_locked"} =>
              completedTxNoncePerAddressMutex = c

C18_StoreErrorsRetried ==
    (lastCheck.ran /\ lastCheck.storeFailed) => ctxDone

----------------------------------------------------------------------------
(* Properties of the fueling manager *)

\* C10: a fueling request whose lookup succeeded has found a transaction exactly when
\* the store held a Pending transaction with value from the funding address to the
\* destination, the one found being such a transaction with the highest nonce; and
\* when the one found is not completed according to CheckTransactionCompleted, the
\* request returns its id and leaves the store as it was.
C10_FuelingIdempotence ==
    (lastFueling.ran /\ ~lastFueling.err) =>
        /\ lastFueling.found # <<>> <=> lastFueling.pending # {}
        /\ lastFueling.found # <<>> =>
              /\ lastFueling.found[1] \in lastFueling.pending
              /\ \A tx \in lastFueling.pending : tx.nonce <= lastFueling.found[1].nonce
        /\ (lastFueling.found # <<>> /\ ~lastFueling.completed) =>
              /\ lastFueling.id = lastFueling.found[1].id
              /\ Len(txStore) = lastFueling.storeBefore

\* a request has returned the transaction an earlier request had enqueued, with a
\* pending fueling transaction to the other destination in the store as well
C10_Witness ==
    /\ lastFueling.ran
    /\ ~lastFueling.err
    /\ lastFueling.found # <<>>
    /\ ~lastFueling.completed
    /\ lastFueling.id = lastFueling.found[1].id
    /\ \E tx \in TxOf(txStore) :
          /\ tx.from = FundingAddress
          /\ tx.hasValue
          /\ tx.to # lastFueling.destination
          /\ tx.status = PubTxStatusPending
          /\ tx.nonce > lastFueling.found[1].nonce

\* the Pending transactions with value from the funding address to a destination
PendingFuelingTo(destination) ==
    {tx \in TxOf(txStore) :
        /\ tx.from = FundingAddress
        /\ tx.to = destination
        /\ tx.hasValue
        /\ tx.status = PubTxStatusPending}

----------------------------------------------------------------------------
(* Properties of the submission lifecycle *)

\* the nonces of the transactions of a signer that are in a status
NoncesIn(from, status) ==
    {txStore[i].nonce : i \in {j \in 1..Len(txStore) :
        txStore[j].from = from /\ txStore[j].status = status}}

SeqRange(seq) == {seq[k] : k \in 1..Len(seq)}

TxIds == 1..Len(txStore)

\* C13: after every step no two distinct transactions of one signer with the same
\* nonce are both Submitted; and a step that gives a transaction a new broadcast
\* hash leaves its nonce as it was, the transaction being Submitted with that one
\* hash, later than the one it supersedes.
C13_OneSubmittedPerNonce ==
    [][/\ \A i, j \in 1..Len(txStore') :
             (/\ i # j
              /\ txStore'[i].from = txStore'[j].from
              /\ txStore'[i].status = PubTxStatusSubmitted
              /\ txStore'[j].status = PubTxStatusSubmitted) =>
                 txStore'[i].nonce # txStore'[j].nonce
       /\ \A id \in DOMAIN broadcastHash :
             /\ id \in DOMAIN broadcastHash'
             /\ broadcastHash'[id] # broadcastHash[id] =>
                   /\ broadcastHash'[id] > broadcastHash[id]
                   /\ txStore'[id].nonce = txStore[id].nonce
                   /\ txStore'[id].status = PubTxStatusSubmitted]_vars

\* two transactions of a signer are Submitted, one of them with a replaced hash
C13_Witness ==
    \E i, j \in TxIds :
        /\ i # j
        /\ txStore[i].from = txStore[j].from
        /\ txStore[i].status = PubTxStatusSubmitted
        /\ txStore[j].status = PubTxStatusSubmitted
        /\ broadcastHash[i] > 1

StatusChanges(allowed) ==
    \A i \in TxIds :
        /\ txStore'[i].status # txStore[i].status =>
              <<txStore[i].status, txStore'[i].status>> \in allowed
        /\ HasNonce(txStore[i]) => txStore'[i].nonce = txStore[i].nonce

StatedTransitions ==
    {<<PubTxStatusPending, PubTxStatusSubmitted>>,
     <<PubTxStatusSubmitted, PubTxStatusSucceeded>>,
     <<PubTxStatusSubmitted, PubTxStatusFailed>>,
     <<PubTxStatusSubmitted, PubTxStatusSuspended>>,
     <<PubTxStatusSuspended, PubTxStatusSubmitted>>}

\* C14 as stated: a status changes only along Pending -> Submitted ->
\* (Succeeded | Failed) and Submitted -> Suspended -> Submitted, and an assigned
\* nonce never changes.
C14_StatusTransitions == [][StatusChanges(StatedTransitions)]_vars

\* C14 as amended: a status changes only along the stated transitions or, in a reorg
\* that drops the receipt of the transaction before the threshold depth, from
\* Succeeded back to Submitted; no transition leaves Failed; an assigned nonce never
\* changes.
C14_StatusTransitionsWithReorg ==
    [][/\ StatusChanges(StatedTransitions \cup
                           {<<PubTxStatusSucceeded, PubTxStatusSubmitted>>})
       /\ \A i \in TxIds :
             (/\ txStore[i].status = PubTxStatusSucceeded
              /\ txStore'[i].status # PubTxStatusSucceeded) =>
                 /\ lastLedgerEvent'.kind = "reorg"
                 /\ i \in lastLedgerEvent'.unmarked
                 /\ ~HasReceipt(chain', i)]_vars

\* a reorg has just un-marked a transaction, Submitted again with its nonce
C14_Witness ==
    /\ lastLedgerEvent.kind = "reorg"
    /\ \E i \in lastLedgerEvent.unmarked :
          /\ txStore[i].status = PubTxStatusSubmitted
          /\ txStore[i].nonce >= InitialLedgerNonce

\* C15: whenever a transaction is Succeeded, every transaction of its signer with a
\* lower nonce is Succeeded or Failed and the cache entry of the signer is at least
\* its nonce; and a receipt with status 1 resolved while a lower nonce of the signer
\* is not terminal leaves the transaction Submitted.
C15_LowerNoncesFirst ==
    /\ \A i \in TxIds :
          txStore[i].status = PubTxStatusSucceeded =>
              /\ \A j \in TxIds :
                    (/\ txStore[j].from = txStore[i].from
                     /\ txStore[j].status # PubTxStatusPending
                     /\ txStore[j].nonce < txStore[i].nonce) =>
                        txStore[j].status \in {PubTxStatusSucceeded, PubTxStatusFailed}
              /\ txStore[i].from \in DOMAIN completedTxNoncePerAddress
              /\ completedTxNoncePerAddress[txStore[i].from] >= txStore[i].nonce
    /\ (lastLedgerEvent.kind = "update" /\ lastLedgerEvent.rejected) =>
          /\ txStore[lastLedgerEvent.id].status = PubTxStatusSubmitted
          /\ lastLedgerEvent.status = PubTxStatusSucceeded

\* the receipt of a higher nonce was resolved first and the update was rejected,
\* while a lower nonce of the signer has its receipt on the ledger too
C15_Witness ==
    /\ lastLedgerEvent.kind = "update"
    /\ lastLedgerEvent.rejected
    /\ \E j \in TxIds :
          /\ txStore[j].from = txStore[lastLedgerEvent.id].from
          /\ txStore[j].status = PubTxStatusSubmitted
          /\ txStore[j].nonce < txStore[lastLedgerEvent.id].nonce
          /\ HasReceipt(chain, j)

\* C16: after a reorg every transaction it un-marked is Submitted and in the
\* in-flight queue, the cache is as it was before the reorg, and the cache entry of
\* the signer is below the nonce of the un-marked transaction.
C16_ReorgLeavesCacheBelow ==
    lastLedgerEvent.kind = "reorg" =>
        /\ completedTxNoncePerAddress = lastLedgerEvent.cacheBefore
        /\ \A i \in lastLedgerEvent.unmarked :
              /\ txStore[i].status = PubTxStatusSubmitted
              /\ i \in inFlightQueue
              /\ txStore[i].from \in DOMAIN completedTxNoncePerAddress =>
                    completedTxNoncePerAddress[txStore[i].from] < txStore[i].nonce

----------------------------------------------------------------------------
(* Properties of the receipt event streams *)

\* one step as C19 allows it, for every subscription: a call of DeliverReceiptBatch
\* returns only by taking an ack or nack from the subscription's channel or with
\* the closed channel closed; a batch is sent only while no call for the
\* subscription is waiting; and the deliveries go on to the next batch only in
\* the return of a call that took an ack
DeliveryStep ==
    \A id \in SubIds :
        LET before == subscriptions[id]
            after == subscriptions'[id]
        IN /\ (before.pc = "waiting" /\ after.pc = "idle") =>
                 \/ /\ Len(before.acksNacks) > 0
                    /\ after.acksNacks = Tail(before.acksNacks)
                 \/ before.closed > 0
           /\ after.calls > before.calls => before.pc = "idle"
           /\ after.batch # before.batch =>
                 /\ before.pc = "waiting"
                 /\ Len(before.acksNacks) > 0
                 /\ Head(before.acksNacks).ack
                 /\ after.batch = before.batch + 1

C20_NackClosesSubscription ==
    (/\ lastDelivery.ran
     /\ lastDelivery.case = "acksNacks"
     /\ lastDelivery.answers = lastDelivery.call
     /\ lastDelivery.result # "nil") =>
        /\ lastDelivery.result = "MsgTxMgrJSONRPCSubscriptionNack"
        /\ lastDelivery.id \notin receiptSubs
        /\ subscriptions[lastDelivery.id].rrc = "closed"
        /\ subscriptions[lastDelivery.id].closed > 0

\* a call of DeliverReceiptBatch is waiting for a subscription that a cleanup has
\* taken from the map, and no ack or nack is there for it
ClosedWhileWaiting(id) ==
    /\ subscriptions[id].pc = "waiting"
    /\ id \notin receiptSubs
    /\ subscriptions[id].acksNacks = <<>>

\* C21: a call of DeliverReceiptBatch that waits while its subscription is closed,
\* with no ack or nack received, does not block for ever and does not return
\* success: either the call can return, or the cleanup that closes the
\* subscription can go on to close the closed channel; and a call that returns
\* for a closed subscription without an ack or nack returns the closed error.
C21_ClosedCallReturns ==
    /\ \A id \in SubIds :
          ClosedWhileWaiting(id) =>
              \/ ENABLED DeliverReceiptBatchReturns(id)
              \/ ENABLED CleanupLockedCloses
    /\ (lastDelivery.ran /\ lastDelivery.case # "acksNacks") =>
          lastDelivery.result = "MsgTxMgrJSONRPCSubscriptionClosed"

----------------------------------------------------------------------------
(* Properties of the privacy group messages *)

\* a step that adds to the notified rows is the run of a post-commit hook of a
\* committed transaction, and it adds rows which that transaction inserted
NotifyStep ==
    notifiedMessages' # notifiedMessages =>
        \E t \in DBTXs :
            /\ dbTXs[t].state = "committed"
            /\ dbTXs[t].postCommit # <<>>
            /\ dbTXs'[t].postCommit = Tail(dbTXs[t].postCommit)
            /\ notifiedMessages' \ notifiedMessages \subseteq dbTXs[t].rows

\* C22: notifyNewMessages is called only from a post-commit hook of the DB
\* transaction that inserted the rows: every notified row is a committed row, and
\* no row of a transaction that is open or was rolled back is notified.
C22_NotifyAfterCommit ==
    /\ [][NotifyStep]_vars
    /\ [](notifiedMessages \subseteq persistedMessages)
    /\ [](\A t \in DBTXs : dbTXs[t].state # "committed" =>
                dbTXs[t].rows \cap notifiedMessages = {})

\* one transaction was rolled back after SendMessage had put a row and a hook in
\* it, another has committed and every row it inserted has been notified
C22_Witness ==
    \E t, u \in DBTXs :
        /\ dbTXs[t].state = "rolledBack"
        /\ dbTXs[t].rows # {}
        /\ dbTXs[u].state = "committed"
        /\ dbTXs[u].rows # {}
        /\ dbTXs[u].rows \subseteq notifiedMessages

----------------------------------------------------------------------------
(* Further properties of the engine's poll *)

\* the orchestrator of a signer was born more than maxOverloadProcessTime before
\* the poll that has just returned
OverAge(a) ==
    lastPoll.at - InFlightOrchestrators[a].orchestratorBirthTime > maxOverloadProcessTime

\* C23: with a pool of two, orchestrators of A (older) and B both older than
\* maxOverloadProcessTime, and a transaction of C pending, the tick stops and
\* pauses only A; B is neither stopped nor put into the pause table.
C23_OnlyTheOldestEvicted ==
    (/\ lastPoll.ran
     /\ lastPoll.branch = "full"
     /\ maxInFlightOrchestrators = 2
     /\ lastPoll.survivors = {"A", "B"}
     /\ lastPoll.stopCalled = {}
     /\ OverAge("A") /\ OverAge("B")
     /\ InFlightOrchestrators["A"].orchestratorBirthTime
            < InFlightOrchestrators["B"].orchestratorBirthTime
     /\ "C" \in PendingSigners) =>
        /\ lastPoll.evicted = {"A"}
        /\ InFlightOrchestrators["A"].stopRequested
        /\ "A" \in DOMAIN SigningAddressesPausedUntil
        /\ ~InFlightOrchestrators["B"].stopRequested
        /\ "B" \notin DOMAIN SigningAddressesPausedUntil

\* the orchestrator of signer a holds the only slot and is older than
\* maxOverloadProcessTime, while signer e has a Pending transaction and no
\* orchestrator
Starving(a, e) ==
    /\ maxInFlightOrchestrators = 1
    /\ a # e
    /\ DOMAIN InFlightOrchestrators = {a}
    /\ a \in PendingSigners
    /\ e \in PendingSigners
    /\ now - InFlightOrchestrators[a].orchestratorBirthTime > maxOverloadProcessTime

\* C24: with one slot, held by a signer with pending work whose orchestrator is
\* older than maxOverloadProcessTime, a second signer with a Pending transaction
\* gets an orchestrator in the end, under fair scheduling of the engine's ticks
\* and of the orchestrators' stops.
C24_StarvationAvoidance ==
    \A a, e \in Signers : Starving(a, e) ~> (e \in DOMAIN InFlightOrchestrators)

\* an entry of the orchestrator map is inserted, replaced or deleted, or the
\* pause table changes
MapsMutated ==
    \/ DOMAIN InFlightOrchestrators' # DOMAIN InFlightOrchestrators
    \/ \E a \in DOMAIN InFlightOrchestrators \cap DOMAIN InFlightOrchestrators' :
          InFlightOrchestrators'[a].orchestratorBirthTime
              # InFlightOrchestrators[a].orchestratorBirthTime
    \/ SigningAddressesPausedUntil' # SigningAddressesPausedUntil

PastThreshold ==
    {a \in DOMAIN InFlightOrchestrators :
        \/ /\ InFlightOrchestrators[a].state = OrchestratorStateStale
           /\ now - InFlightOrchestrators[a].stateEntryTime > maxOrchestratorStale
        \/ /\ InFlightOrchestrators[a].state = OrchestratorStateIdle
           /\ now - InFlightOrchestrators[a].stateEntryTime > maxOrchestratorIdle}

ObservedStopped ==
    {a \in DOMAIN InFlightOrchestrators :
        InFlightOrchestrators[a].state = OrchestratorStateStopped}

ReapStep ==
    /\ DOMAIN InFlightOrchestrators \ DOMAIN InFlightOrchestrators' \subseteq ObservedStopped
    /\ DOMAIN InFlightOrchestrators' # DOMAIN InFlightOrchestrators => lastPoll'.ran
    /\ lastPoll'.ran =>
          /\ lastPoll'.stopCalled = PastThreshold
          /\ \A a \in PastThreshold \ ObservedStopped :
                InFlightOrchestrators'[a].stopRequested
          /\ lastPoll'.removed = ObservedStopped
          /\ \A a \in DOMAIN InFlightOrchestrators \ ObservedStopped :
                /\ a \in DOMAIN InFlightOrchestrators'
                /\ InFlightOrchestrators'[a].orchestratorBirthTime
                       = InFlightOrchestrators[a].orchestratorBirthTime
                /\ InFlightOrchestrators'[a].state = InFlightOrchestrators[a].state
                /\ a \in lastPoll'.markedStale
          /\ lastPoll'.markedStale = DOMAIN InFlightOrchestrators \ ObservedStopped
          /\ \A s \in AllOrchestratorStates :
                lastPoll'.reapCounts[s] =
                    Cardinality({a \in DOMAIN InFlightOrchestrators \ ObservedStopped :
                                    InFlightOrchestrators[a].state = s})

\* C26: in each poll Stop is requested for exactly the orchestrators that are
\* Stale for longer than maxStale or Idle for longer than maxIdle; an entry leaves
\* the map only in a poll that observes it Stopped, and every orchestrator not
\* observed Stopped is carried over as it is, marked stale for its in-flight
\* transactions and counted under its state.
C26_ReapPhase == [][ReapStep]_vars

\* a poll has dropped a Stopped orchestrator, requested the stop of another one
\* and carried that one over
C26_Witness ==
    /\ lastPoll.ran
    /\ lastPoll.removed # {}
    /\ lastPoll.stopCalled # {}
    /\ lastPoll.stopCalled \subseteq lastPoll.markedStale

\* the orchestrators a poll at the present instant carries over
SurvivorsNow == DOMAIN InFlightOrchestrators \ ObservedStopped

\* the survivors whose birth is further back than maxOverloadProcessTime
OverAgeNow ==
    {a \in SurvivorsNow :
        now - InFlightOrchestrators[a].orchestratorBirthTime > maxOverloadProcessTime}

FullPoolStep ==
    lastPoll'.ran =>
        IF Cardinality(SurvivorsNow) >= maxInFlightOrchestrators
        THEN /\ lastPoll'.branch = "full"
             /\ ~lastPoll'.queried
             /\ lastPoll'.started = <<>>
             /\ DOMAIN InFlightOrchestrators' = SurvivorsNow
             /\ liveOrchestrators' = liveOrchestrators
             /\ lastPoll'.evicted = OverAgeNow
             /\ DOMAIN SigningAddressesPausedUntil'
                    = DOMAIN SigningAddressesPausedUntil \cup OverAgeNow
             /\ \A a \in OverAgeNow :
                   /\ InFlightOrchestrators'[a].stopRequested
                   /\ SigningAddressesPausedUntil'[a] = now + maxOverloadProcessTime
             /\ \A a \in SurvivorsNow \ OverAgeNow :
                   InFlightOrchestrators'[a].stopRequested
                       = (InFlightOrchestrators[a].stopRequested \/ a \in PastThreshold)
             /\ \A a \in DOMAIN SigningAddressesPausedUntil \ OverAgeNow :
                   SigningAddressesPausedUntil'[a] = SigningAddressesPausedUntil[a]
        ELSE /\ lastPoll'.branch = "free"
             /\ lastPoll'.evicted = {}
             /\ SigningAddressesPausedUntil' = SigningAddressesPausedUntil
             /\ \A a \in SurvivorsNow :
                   InFlightOrchestrators'[a].stopRequested
                       = (InFlightOrchestrators[a].stopRequested \/ a \in PastThreshold)

\* C27: a poll whose survivors fill the pool queries nothing and creates nothing;
\* it requests Stop for every survivor older than maxOverloadProcessTime and sets
\* that signer's pause entry to now + maxOverloadProcessTime, and leaves the other
\* survivors and pause entries as they are; a poll with a free slot evicts nobody.
C27_FullPoolTick == [][FullPoolStep]_vars

\* a poll of a full pool of two has evicted one orchestrator and kept the other
C27_Witness ==
    /\ lastPoll.ran
    /\ lastPoll.branch = "full"
    /\ lastPoll.evicted # {}
    /\ lastPoll.survivors \ lastPoll.evicted # {}
    /\ \E a \in lastPoll.evicted :
          /\ InFlightOrchestrators[a].stopRequested
          /\ SigningAddressesPausedUntil[a] = lastPoll.at + maxOverloadProcessTime

\* the signers whose pause deadline has not passed
StillPaused ==
    {a \in DOMAIN SigningAddressesPausedUntil : now < SigningAddressesPausedUntil[a]}

\* the signers of the Pending transactions of the store outside notFrom, by
\* ascending sequence
PendingSignersBySequence(notFrom) ==
    LET pending == SelectSeq(txStore, LAMBDA tx :
                       tx.status = PubTxStatusPending /\ tx.from \notin notFrom)
    IN [i \in 1..Len(pending) |-> pending[i].from]

FirstRows(s, n) == IF Len(s) > n THEN SubSeq(s, 1, n) ELSE s

CapacityStep ==
    (lastPoll'.ran /\ Cardinality(SurvivorsNow) < maxInFlightOrchestrators) =>
        /\ lastPoll'.queried
        /\ lastPoll'.NotFrom = SurvivorsNow \cup StillPaused
        /\ lastPoll'.limit = maxInFlightOrchestrators - Cardinality(SurvivorsNow)
        /\ ~lastPoll'.cancelled =>
              /\ lastPoll'.rows =
                     FirstRows(PendingSignersBySequence(SurvivorsNow \cup StillPaused),
                               maxInFlightOrchestrators - Cardinality(SurvivorsNow))
              /\ SeqRange(lastPoll'.started) \subseteq SeqRange(lastPoll'.rows)
              /\ DOMAIN InFlightOrchestrators'
                     = SurvivorsNow \cup SeqRange(lastPoll'.started)
              /\ \A a \in SeqRange(lastPoll'.started) :
                    InFlightOrchestrators'[a] = NewOrchestrator(now)
              /\ \A a \in Signers :
                    liveOrchestrators'[a] - liveOrchestrators[a]
                        = IF a \in DOMAIN InFlightOrchestrators' \ SurvivorsNow
                          THEN 1 ELSE 0

\* C28: a poll with a free slot queries the store for status Pending by ascending
\* sequence, limited to the number of free slots, with NotFrom the in-flight
\* signers united with the signers whose pause deadline has not passed (the empty
\* set when there is none); orchestrators are created only for signers of
\* returned rows, and each created orchestrator is started exactly once.
C28_CapacityQuery == [][CapacityStep]_vars

\* a poll has queried with an in-flight and a paused signer excluded and has
\* started an orchestrator for a returned row
C28_Witness ==
    /\ lastPoll.ran
    /\ lastPoll.queried
    /\ ~lastPoll.cancelled
    /\ lastPoll.survivors # {}
    /\ lastPoll.NotFrom \ lastPoll.survivors # {}
    /\ lastPoll.rows # <<>>
    /\ lastPoll.started # <<>>

StopRequestStep ==
    /\ lastPoll'.ran =>
          /\ \A a \in lastPoll'.stopCalled \cup lastPoll'.evicted :
                /\ a \in DOMAIN InFlightOrchestrators'
                /\ InFlightOrchestrators'[a]
                       = [InFlightOrchestrators[a] EXCEPT !.stopRequested = TRUE]
                /\ InFlightOrchestrators[a].stopRequested =>
                       InFlightOrchestrators'[a] = InFlightOrchestrators[a]
          /\ \A a \in ObservedStopped :
                /\ a \in lastPoll'.removed
                /\ a \in DOMAIN InFlightOrchestrators' =>
                       /\ a \in SeqRange(lastPoll'.started)
                       /\ InFlightOrchestrators'[a] = NewOrchestrator(now)
    /\ \A a \in ObservedStopped \cap DOMAIN InFlightOrchestrators' :
          \/ InFlightOrchestrators'[a].state = OrchestratorStateStopped
          \/ lastPoll'.ran /\ a \in SeqRange(lastPoll'.started)

\* C29: a Stop request only marks the orchestrator: the orchestrator stays in the
\* map in the poll that requests its stop, whether in the reap phase or in the
\* eviction pass, a request on an orchestrator whose stop is already requested
\* changes nothing, the first poll that observes state Stopped removes the
\* orchestrator, and a Stopped orchestrator never leaves that state.
C29_StopAsynchronousIdempotent == [][StopRequestStep]_vars

\* a poll has requested the stop of an orchestrator whose stop an earlier poll
\* had requested, and the orchestrator is still in the map
C29_Witness ==
    /\ lastPoll.ran
    /\ lastPoll.stopRepeated # {}
    /\ lastPoll.stopRepeated \subseteq DOMAIN InFlightOrchestrators

CancelledPollStep ==
    (lastPoll'.ran /\ lastPoll'.cancelled) =>
        /\ lastPoll'.queried
        /\ lastPoll'.started = <<>>
        /\ liveOrchestrators' = liveOrchestrators
        /\ SigningAddressesPausedUntil' = SigningAddressesPausedUntil
        /\ DOMAIN InFlightOrchestrators' = SurvivorsNow
        /\ \A a \in SurvivorsNow :
              InFlightOrchestrators'[a] =
                  IF a \in PastThreshold
                  THEN [InFlightOrchestrators[a] EXCEPT !.stopRequested = TRUE]
                  ELSE InFlightOrchestrators[a]
        /\ ~lastPoll'.metrics
        /\ lastPoll'.polled = -1
        /\ lastPoll'.total = Cardinality(SurvivorsNow)

\* C30: a poll whose query ends by the cancellation of the context creates no
\* orchestrator, adds no pause entry, keeps exactly the reaped survivor map,
\* publishes no metrics and returns polled = -1 and total = the number of
\* survivors.
C30_CancelledPoll == [][CancelledPollStep]_vars

\* a cancelled poll has returned with a survivor in the map while the store holds
\* a Pending transaction that its query did not exclude
C30_Witness ==
    /\ lastPoll.ran
    /\ lastPoll.cancelled
    /\ lastPoll.polled = -1
    /\ lastPoll.total > 0
    /\ \E i \in 1..Len(txStore) :
          /\ txStore[i].status = PubTxStatusPending
          /\ txStore[i].from \notin lastPoll.NotFrom

----------------------------------------------------------------------------
(* Further properties of the fueling lookup and of the completed-nonce cache *)

\* the fueling lookups that have returned a result to a request not yet decided
FuelingLookups == {c \in Callers : callers[c].pc = "FUEL_found"}

\* C31: GetPendingFuelingTransaction(source, destination) returns the transaction
\* with the highest nonce among the Pending transactions with value from source to
\* destination, and no transaction when there is none; what it returns is never of
\* another source, destination or status, and never without value.
C31_PendingFuelingLookup ==
    \A c \in FuelingLookups :
        LET found == callers[c].found
            matching == callers[c].pending
        IN /\ (matching = {}) <=> (found = <<>>)
           /\ found # <<>> =>
                 /\ found[1].status = PubTxStatusPending
                 /\ found[1].from = FundingAddress
                 /\ found[1].to = callers[c].destination
                 /\ found[1].hasValue
                 /\ \A tx \in matching : tx.nonce <= found[1].nonce

\* a lookup has returned the higher of two pending fueling transactions to its
\* destination
C31_Witness ==
    \E c \in FuelingLookups :
        /\ callers[c].found # <<>>
        /\ \E tx \in callers[c].pending : tx.nonce < callers[c].found[1].nonce

----------------------------------------------------------------------------
(* Properties of the stage controller *)

\* the events of the call that the stage of the call owns
OwnEvents ==
    SelectSeq(lastStageCall.stageEvents, LAMBDA se : se.Stage = lastStageCall.stage)

\* C32: PerformActionForStage and ProcessEventsForStage panic for a stage without
\* a registered processor; for the registered stage ProcessEventsForStage returns
\* what the processor makes of the events: the events of other stages come back
\* unprocessed, in their order, the events of the stage do not come back, the next
\* step is NextStepNewStage exactly when one of them is a completing event, and a
\* transaction update is returned exactly when one of them is not, so completing
\* events alone yield NextStepNewStage with no transaction update.
C32_StageController ==
    /\ lastStageCall.op # "none" =>
          (lastStageCall.panicked <=> lastStageCall.stage # testStage)
    /\ (lastStageCall.op = "ProcessEventsForStage" /\ ~lastStageCall.panicked) =>
          /\ lastStageCall.result.unprocessedStageEvents =
                 SelectSeq(lastStageCall.stageEvents,
                           LAMBDA se : se.Stage # lastStageCall.stage)
          /\ (lastStageCall.result.nextStep = NextStepNewStage) <=>
                 (\E i \in 1..Len(OwnEvents) : OwnEvents[i].Data = "complete")
          /\ lastStageCall.result.nextStep \in {NextStepNewStage, NextStepWait}
          /\ (lastStageCall.result.txUpdates = "nil") <=>
                 (\A i \in 1..Len(OwnEvents) : OwnEvents[i].Data = "complete")

\* the processor of the test stage has been handed a completing event of its stage
\* and an event of another stage, and has returned the latter and NextStepNewStage
\* without a transaction update
C32_Witness ==
    /\ lastStageCall.op = "ProcessEventsForStage"
    /\ ~lastStageCall.panicked
    /\ Len(OwnEvents) > 0
    /\ Len(lastStageCall.result.unprocessedStageEvents) > 0
    /\ lastStageCall.result.nextStep = NextStepNewStage
    /\ lastStageCall.result.txUpdates = "nil"

----------------------------------------------------------------------------
(* Further properties of CheckTransactionCompleted *)

\* the callers inside CheckTransactionCompleted, its call of updateCompletedTxNonce
\* included
InsideCheck ==
    {c \in Callers :
        \/ callers[c].pc \in {"CTC_lookup", "CTC_query"}
        \/ callers[c].pc \in {"UCN_lock", "UCN_locked"} /\ callers[c].op = "check"}

SameEntry(a) ==
    /\ a \in DOMAIN completedTxNoncePerAddress' <=> a \in DOMAIN completedTxNoncePerAddress
    /\ a \in DOMAIN completedTxNoncePerAddress =>
           completedTxNoncePerAddress'[a] = completedTxNoncePerAddress[a]

CheckFailureStep ==
    /\ ( /\ lastCheck'.ran
         /\ lastCheck'.seen = <<>>
         /\ lastCheck'.storeFailed \/ lastCheck'.storeNonces = {} ) =>
            /\ ~lastCheck'.completed
            /\ completedTxNoncePerAddress' = completedTxNoncePerAddress
    /\ \A c \in InsideCheck :
          callers'[c] # callers[c] =>
              \A a \in Signers \cup {FundingAddress} :
                  a # callers[c].tx.from => SameEntry(a)

\* C33: a CheckTransactionCompleted that finds no cache entry for tx.From and whose
\* store lookup fails or finds no Succeeded or Failed transaction of tx.From
\* returns false and leaves the cache as it is; no step of the call changes the
\* cache entry of another signer.
C33_CheckFailurePaths == [][CheckFailureStep]_vars

\* a call has returned false after a failed store lookup, with no entry for its
\* signer and an entry of another signer in the cache
C33_Witness ==
    /\ lastCheck.ran
    /\ lastCheck.storeFailed
    /\ ~lastCheck.completed
    /\ lastCheck.tx.from \notin DOMAIN completedTxNoncePerAddress
    /\ DOMAIN completedTxNoncePerAddress # {}

----------------------------------------------------------------------------
(* The values poll returns *)

\* C34: a poll that is not cut short by cancellation returns as total the number
\* of orchestrators in InFlightOrchestrators when it returns and as polled the
\* number of orchestrators it created, in the branch with a free slot and in the
\* branch of the full pool.
C34_PollReturnsCounts ==
    (lastPoll.ran /\ ~lastPoll.cancelled) =>
        /\ lastPoll.total = Cardinality(DOMAIN InFlightOrchestrators)
        /\ lastPoll.polled = Len(lastPoll.started)

----------------------------------------------------------------------------
(* The evolution of the pause table *)

\* the orchestrators in the map that a poll has evicted: their signer's pause was
\* set after they had grown older than maxOverloadProcessTime
EvictedInMap ==
    {a \in DOMAIN InFlightOrchestrators \cap DOMAIN SigningAddressesPausedUntil :
        SigningAddressesPausedUntil[a] >
            InFlightOrchestrators[a].orchestratorBirthTime + maxOverloadProcessTime}

PauseTableStep ==
    /\ DOMAIN SigningAddressesPausedUntil \subseteq DOMAIN SigningAddressesPausedUntil'
    /\ \A a \in DOMAIN SigningAddressesPausedUntil :
          SigningAddressesPausedUntil'[a] >= SigningAddressesPausedUntil[a]
    /\ (lastPoll'.ran /\ Cardinality(SurvivorsNow) >= maxInFlightOrchestrators) =>
          \A a \in EvictedInMap \ ObservedStopped :
              SigningAddressesPausedUntil'[a] = now + maxOverloadProcessTime

----------------------------------------------------------------------------
(* No lost wake-up *)

\* C36: after a call of MarkInFlightOrchestratorsStale has returned, a signal waits
\* in the channel until a poll starts, and a poll does start after the call unless
\* the engine context is cancelled first; also when the call is made during a poll
\* and when its signal is dropped because one is waiting already.
C36_NoLostWakeUp ==
    /\ [](pollOwed => InFlightOrchestratorStale >= 1)
    /\ (pollOwed ~> (~pollOwed \/ ctxDone))

\* a call made while a poll was running has returned, and one whose signal was
\* dropped: a call has just returned having found the channel full, with the loop
\* in a poll
C36_Witness ==
    /\ pollOwed
    /\ lastMark.ran
    /\ lastMark.before = StaleChannelBuffer
    /\ enginePC = "poll"
    /\ ~ctxDone

----------------------------------------------------------------------------
(* Further properties of the receipt subscriptions *)

CleanedUpOnce ==
    \A id \in SubIds :
        /\ subscriptions[id].closed <= 1
        /\ subscriptions[id].closeCalls <= 1
        /\ subscriptions[id].rrc = "nil" => subscriptions[id].closeCalls = 0
        /\ subscriptions[id].closed = 1 =>
              /\ id \notin receiptSubs
              /\ subscriptions[id].rrc # "nil" =>
                    (subscriptions[id].rrc = "closed" /\ subscriptions[id].closeCalls = 1)

\* the unlock that ends stop
StopReturns == subLock # NoLock /\ subLock.caller = "stop" /\ subLock' = NoLock

\* C37: under every interleaving of ptx_unsubscribe requests, ConnectionClosed and
\* stop, the closed channel of a subscription is never closed twice and its receipt
\* receiver is closed at most once; a subscription that has been cleaned up has its
\* channel closed once and is absent from receiptSubs; and receiptSubs is empty
\* when stop returns.
C37_CleanupAtMostOnce ==
    /\ []CleanedUpOnce
    /\ [][StopReturns => receiptSubs' = {}]_vars

\* both subscriptions have been cleaned up, one with a receipt receiver and one
\* without
C37_Witness ==
    /\ subLock = NoLock
    /\ \A id \in SubIds : subscriptions[id].closed = 1
    /\ \E id \in SubIds : subscriptions[id].closeCalls = 1
    /\ \E id \in SubIds : subscriptions[id].rrc = "nil"


\* a full acksNacks channel changes only by the receive of DeliverReceiptBatch
BufferedAckKept ==
    \A id \in SubIds :
        (/\ Len(subscriptions[id].acksNacks) = AcksNacksBuffer
         /\ subscriptions'[id].acksNacks # subscriptions[id].acksNacks) =>
            subscriptions'[id].acksNacks = Tail(subscriptions[id].acksNacks)

\* C38: the call of DeliverReceiptBatch for a batch returns on an ack or nack only
\* when the client sent it after that batch was sent to it, so that an ack or
\* nack buffered while no batch was outstanding is not counted for a later batch;
\* and an ack or nack that arrives while one is buffered is dropped.
C38_AckAnswersItsBatch ==
    /\ []((lastDelivery.ran /\ lastDelivery.case = "acksNacks") =>
             lastDelivery.answers = lastDelivery.call)
    /\ [][BufferedAckKept]_vars


\* C39: a ptx_subscribe that fails registers nothing: every subscription in
\* receiptSubs is one whose HandleStart returned the subscription id, and it has
\* a receipt receiver.
C39_FailedSubscribeRegistersNothing ==
    \A id \in receiptSubs :
        /\ subscriptions[id].started
        /\ subscriptions[id].rrc # "nil"


----------------------------------------------------------------------------
(* Further properties of the privacy group messages *)

\* the number of reliable messages to node for message msgID queued in tx
QueuedFor(tx, node, msgID) ==
    LET m == [node |-> node, id |-> msgID]
    IN IF m \in DOMAIN tx.reliable THEN tx.reliable[m] ELSE 0

\* what a SendMessage that has just returned has done to its DB transaction
SendMessageStep ==
    lastSendMessage'.ran =>
        LET s == lastSendMessage'
            before == dbTXs[s.t]
            after == dbTXs'[s.t]
            remoteNodes == {NodeOf(i) : i \in s.members}
        IN /\ \A u \in DBTXs \ {s.t} : dbTXs'[u] = dbTXs[u]
           /\ persistedMessages' = persistedMessages
           /\ notifiedMessages' = notifiedMessages
           /\ s.error = "GroupNotFound" => (s.returned = 0 /\ after = before)
           /\ s.error \in {"validateMembers", "SendReliable"} =>
                 /\ s.returned = 0
                 /\ s.msgID \notin before.rows
                 /\ after.rows = before.rows \cup {s.msgID}
                 /\ after.postCommit = before.postCommit
           /\ s.error = "none" =>
                 /\ s.returned = s.msgID
                 /\ s.msgID \notin before.rows
                 /\ after.rows = before.rows \cup {s.msgID}
                 /\ after.postCommit = Append(before.postCommit, {s.msgID})
                 /\ \A node \in remoteNodes : QueuedFor(after, node, s.msgID) = 1
                 /\ \A m \in DOMAIN after.reliable :
                       IF m \in DOMAIN before.reliable
                       THEN after.reliable[m] = before.reliable[m]
                       ELSE m.id = s.msgID /\ m.node \in remoteNodes

\* C40: SendMessage for a group that does not exist returns an error and inserts
\* no message, queues no reliable message and registers no post-commit
\* notification; when validateMembers or SendReliable fails after the insert it
\* returns the error with no post-commit notification registered; on success
\* exactly one reliable message for each remote member node, and no other, is
\* queued in the DB transaction of the insert.
C40_SendMessageErrorPaths == [][SendMessageStep]_vars

\* a SendMessage for a group with members on two remote nodes has succeeded in a transaction in which an earlier SendMessage failed
\* after its insert
C40_Witness ==
    /\ lastSendMessage.ran
    /\ lastSendMessage.error = "none"
    /\ Cardinality({NodeOf(i) : i \in lastSendMessage.members}) = 2
    /\ LET tx == dbTXs[lastSendMessage.t]
       IN /\ Cardinality(tx.rows) = 2
          /\ Len(tx.postCommit) = 1
          /\ Cardinality(DOMAIN tx.reliable) = 2

====
